---- MODULE Spec2Model ----
(***************************************************************************)
(* A model of rust-urlpattern: the tokenizer, the pattern parser, the      *)
(* regular-expression / pattern-string generators, the matcher, the        *)
(* constructor-string parser, init processing and the match driver.        *)
(*                                                                         *)
(* Strings are sequences of one-character strings.  A Rust panic (unwrap   *)
(* on None, a failed assert!, todo!) is the outcome "panic".               *)
(***************************************************************************)
EXTENDS Integers, Sequences, FiniteSets, TLC

\* ------------------------------------------------------------------------
\* Strings
\* ------------------------------------------------------------------------

\* A let binding: Rust's "let x = e;" followed by a body is
\* Bind(e, LAMBDA x : body); e is evaluated once.
Bind(e, F(_)) == CHOOSE y \in {F(x) : x \in {e}} : TRUE

Lower == {"a", "b", "c", "d", "e", "f", "g", "h", "i", "j", "k", "l", "m",
          "n", "o", "p", "q", "r", "s", "t", "u", "v", "w", "x", "y", "z"}

Upper == {"A", "B", "C", "D", "E", "F", "G", "H", "I", "J", "K", "L", "M",
          "N", "O", "P", "Q", "R", "S", "T", "U", "V", "W", "X", "Y", "Z"}

Digit == {"0", "1", "2", "3", "4", "5", "6", "7", "8", "9"}

\* The one non-ASCII code point of the model; UTF-8 encodes it in two bytes.
NonAscii == {"é"}

is_ascii(c) == c \notin NonAscii

is_ascii_digit(c) == c \in Digit

\* Bytes of the UTF-8 encoding of one code point.
len_utf8(c) == IF c \in NonAscii THEN 2 ELSE 1

RECURSIVE str_len(_)
\* str::len: the length in bytes.
str_len(s) == IF s = <<>> THEN 0 ELSE len_utf8(Head(s)) + str_len(Tail(s))

\* Byte offset of the k-th code point (k = 0 .. Len(s)).
byte_offset(s, k) == str_len(SubSeq(s, 1, k))

\* str::get(a..b): the slice between two byte offsets, "NONE" unless a <= b and
\* both are code point boundaries inside the string.
str_get(s, a, b) ==
  LET bs == {k \in 0..Len(s) : byte_offset(s, k) = a}
      es == {k \in 0..Len(s) : byte_offset(s, k) = b}
  IN IF a <= b /\ bs # {} /\ es # {}
       THEN LET i == CHOOSE k \in bs : TRUE
                j == CHOOSE k \in es : TRUE
            IN [some |-> TRUE, v |-> SubSeq(s, i + 1, j)]
       ELSE [some |-> FALSE, v |-> <<>>]

starts_with(s, p) == Len(p) <= Len(s) /\ SubSeq(s, 1, Len(p)) = p

ends_with(s, p) == Len(p) <= Len(s) /\ SubSeq(s, Len(s) - Len(p) + 1, Len(s)) = p

contains_char(s, c) == \E i \in 1..Len(s) : s[i] = c

RECURSIVE concat_all(_)
concat_all(ss) == IF ss = <<>> THEN <<>> ELSE Head(ss) \o concat_all(Tail(ss))

\* usize::to_string
RECURSIVE to_string(_)
to_string(n) ==
  LET d == <<"0", "1", "2", "3", "4", "5", "6", "7", "8", "9">>
  IN IF n < 10 THEN <<d[n + 1]>> ELSE Append(to_string(n \div 10), d[(n % 10) + 1])

\* ------------------------------------------------------------------------
\* Tokenizer (tokenizer.rs)
\* ------------------------------------------------------------------------

\* Identifier start / continue of the name code points.
is_valid_name_codepoint(c, first) ==
  IF first THEN c \in Lower \cup Upper \cup {"$", "_"} \cup NonAscii
           ELSE c \in Lower \cup Upper \cup Digit \cup {"$", "_"} \cup NonAscii

Token(kind, index, value) == [kind |-> kind, index |-> index, value |-> value]

\* A tokenizer: st is "run", "err" (a ParseError was returned) or "panic".
Tokenizer(input, policy) ==
  [input |-> input, policy |-> policy, token_list |-> <<>>, index |-> 0,
   next_index |-> 0, code_point |-> "NONE", st |-> "run"]

get_next_codepoint(t) ==
  IF t.st # "run" THEN t
  ELSE IF t.next_index >= Len(t.input) THEN [t EXCEPT !.st = "panic"]
  ELSE [t EXCEPT !.code_point = t.input[t.next_index + 1],
                 !.next_index = t.next_index + 1]

add_token(t, kind, next_pos, value_pos, value_len) ==
  LET push(v) ==
        IF ~v.some \/ value_len < 0 THEN [t EXCEPT !.st = "panic"]
        ELSE [t EXCEPT !.token_list = Append(@, Token(kind, t.index, v.v)),
                       !.index = next_pos]
  IN IF t.st # "run" THEN t
     ELSE push(str_get(t.input, value_pos, value_pos + value_len))

add_token_with_default_len(t, kind, next_pos, value_pos) ==
  add_token(t, kind, next_pos, value_pos, next_pos - value_pos)

add_token_with_default_pos_and_len(t, kind) ==
  add_token_with_default_len(t, kind, t.next_index, t.index)

process_tokenizing_error(t, next_pos, value_pos) ==
  IF t.st # "run" THEN t
  ELSE IF t.policy = "Strict" THEN [t EXCEPT !.st = "err"]
  ELSE add_token_with_default_len(t, "InvalidChar", next_pos, value_pos)

seek_and_get_next_codepoint(t, index) ==
  get_next_codepoint([t EXCEPT !.next_index = index])

RECURSIVE name_loop(_, _, _)
\* The name scan of tokenize: returns the tokenizer and name_pos.
name_loop(t, name_pos, name_start) ==
  LET scan(t1) ==
        IF t1.st # "run" THEN [t |-> t1, name_pos |-> name_pos]
        ELSE IF ~is_valid_name_codepoint(t1.code_point, name_pos = name_start)
          THEN [t |-> t1, name_pos |-> name_pos]
        ELSE name_loop(t1, t1.next_index, name_start)
  IN IF t.st # "run" \/ ~(name_pos < str_len(t.input)) THEN [t |-> t, name_pos |-> name_pos]
     ELSE scan(seek_and_get_next_codepoint(t, name_pos))

RECURSIVE regexp_loop(_, _, _, _)
\* The regexp scan of tokenize: returns the tokenizer, depth, regexp_pos, error.
\* One iteration reads one code point (t1), and a second one (t2) after a
\* backslash or an opening parenthesis.
regexp_loop(t, depth, regexp_pos, regexp_start) ==
  LET out(tt, d, p, e) == [t |-> tt, depth |-> d, regexp_pos |-> p, error |-> e]
      iterate(t1, t2) ==
        LET c == t1.code_point
            last == regexp_pos = str_len(t1.input) - 1
            \* what the iteration does: "halt1"/"halt2" a read failed, "fail1"/"fail2"
            \* a tokenizing error at t1/t2, "break", or "next" iteration
            verdict ==
              IF t1.st # "run" THEN "halt1"
              ELSE IF ~is_ascii(c) THEN "fail1"
              ELSE IF regexp_pos = regexp_start /\ c = "?" THEN "fail1"
              ELSE IF c = "\\"
                THEN IF last THEN "fail1"
                     ELSE IF t2.st # "run" THEN "halt2"
                     ELSE IF ~is_ascii(t2.code_point) THEN "fail2"
                     ELSE "next"
              ELSE IF c = ")" THEN (IF depth - 1 = 0 THEN "break" ELSE "next")
              ELSE IF c = "("
                THEN IF last THEN "fail1"
                     ELSE IF t2.st # "run" THEN "halt2"
                     ELSE IF t2.code_point # "?" THEN "fail2"
                     ELSE "next"
              ELSE "next"
            depth1 == IF t1.st = "run" /\ c = "(" THEN depth + 1
                      ELSE IF t1.st = "run" /\ c = ")" THEN depth - 1
                      ELSE depth
            tf == IF verdict = "fail1" THEN t1 ELSE t2
            tn == IF c = "\\" THEN t2
                  ELSE IF c = "(" THEN [t2 EXCEPT !.next_index = t1.next_index]
                  ELSE t1
        IN CASE verdict = "halt1" -> out(t1, depth, regexp_pos, FALSE)
             [] verdict = "halt2" -> out(t2, depth1, regexp_pos, FALSE)
             [] verdict \in {"fail1", "fail2"} ->
                  out(process_tokenizing_error(tf, regexp_start, tf.index),
                      depth1, regexp_pos, TRUE)
             [] verdict = "break" -> out(t1, 0, t1.next_index, FALSE)
             [] verdict = "next" -> regexp_loop(tn, depth1, tn.next_index, regexp_start)
      read(t1) == iterate(t1, get_next_codepoint(t1))
  IN IF t.st # "run" \/ ~(regexp_pos < str_len(t.input)) THEN out(t, depth, regexp_pos, FALSE)
     ELSE read(seek_and_get_next_codepoint(t, regexp_pos))

\* The "(" branch of the tokenize loop body, and the Char token the body ends with.
tokenize_regexp_and_char(t) ==
  LET regexp_start == t.next_index
      \* after the scan: the tokenizer, and whether the body goes on to its end
      scanned(r) ==
        IF r.t.st # "run" \/ r.error THEN [t |-> r.t, go |-> FALSE]
        ELSE IF r.depth # 0 \/ r.regexp_pos - regexp_start - 1 = 0
          THEN [t |-> process_tokenizing_error(r.t, regexp_start, r.t.index), go |-> FALSE]
        ELSE [t |-> add_token(r.t, "Regexp", r.regexp_pos, regexp_start,
                              r.regexp_pos - regexp_start - 1),
              go |-> TRUE]
      finish(x) == IF x.go THEN add_token_with_default_pos_and_len(x.t, "Char") ELSE x.t
  IN IF t.st # "run" THEN t
     ELSE finish(IF t.code_point = "("
                   THEN scanned(regexp_loop(t, 1, regexp_start, regexp_start))
                 ELSE [t |-> t, go |-> TRUE])

\* One iteration of the while loop of tokenize.
tokenize_step(t0) ==
  LET step(t) ==
        LET c == t.code_point
            name_start == t.next_index
            \* after the name scan: the tokenizer, and whether the body goes on
            named(r) ==
              IF r.t.st # "run" THEN [t |-> r.t, go |-> FALSE]
              ELSE IF r.name_pos <= name_start
                THEN [t |-> process_tokenizing_error(r.t, name_start, r.t.index),
                      go |-> FALSE]
              ELSE [t |-> add_token_with_default_len(r.t, "Name", r.name_pos, name_start),
                    go |-> TRUE]
            rest(x) == IF x.go THEN tokenize_regexp_and_char(x.t) ELSE x.t
            escaped(t1) ==
              add_token_with_default_len(t1, "EscapedChar", t1.next_index, t.next_index)
        IN IF t.st # "run" THEN t
           ELSE IF c \in {"*", "+", "?", "{", "}"}
             THEN add_token_with_default_pos_and_len(t,
                    CASE c = "*" -> "Asterisk"
                      [] c \in {"+", "?"} -> "OtherModifier"
                      [] c = "{" -> "Open"
                      [] c = "}" -> "Close")
           ELSE IF c = "\\"
             THEN IF t.index = str_len(t.input) - 1
                    THEN process_tokenizing_error(t, t.next_index, t.index)
                  ELSE escaped(get_next_codepoint(t))
           ELSE rest(IF c = ":" THEN named(name_loop(t, name_start, name_start))
                     ELSE [t |-> t, go |-> TRUE])
  IN step(get_next_codepoint(t0))

RECURSIVE tokenize_loop(_)
tokenize_loop(t) ==
  IF t.st # "run" \/ ~(t.index < str_len(t.input)) THEN t
  ELSE tokenize_loop(tokenize_step(t))

\* tokenize: [st |-> "ok", token_list |-> ...], or st "err" / "panic".
tokenize(input, policy) ==
  LET done(e) ==
        IF e.st = "run" THEN [st |-> "ok", token_list |-> e.token_list]
        ELSE [st |-> e.st, token_list |-> <<>>]
      end(t) == done(add_token_with_default_len(t, "End", t.index, t.index))
  IN end(tokenize_loop(Tokenizer(input, policy)))

\* ------------------------------------------------------------------------
\* Encoding callbacks (canonicalize_and_process.rs).  The url crate does the
\* work; it is modelled on the code points the model uses.
\* ------------------------------------------------------------------------

Ok(v) == [st |-> "ok", v |-> v]
Err(e) == [st |-> "err", v |-> e]
Panic == [st |-> "panic", v |-> <<>>]

\* Option: None and Some(v).
None == [some |-> FALSE, v |-> <<>>]
Some(v) == [some |-> TRUE, v |-> v]

to_ascii_lowercase_char(c) ==
  CASE c = "A" -> "a" [] c = "B" -> "b" [] c = "C" -> "c" [] c = "D" -> "d"
    [] c = "E" -> "e" [] c = "F" -> "f" [] c = "G" -> "g" [] c = "H" -> "h"
    [] c = "I" -> "i" [] c = "J" -> "j" [] c = "K" -> "k" [] c = "L" -> "l"
    [] c = "M" -> "m" [] c = "N" -> "n" [] c = "O" -> "o" [] c = "P" -> "p"
    [] c = "Q" -> "q" [] c = "R" -> "r" [] c = "S" -> "s" [] c = "T" -> "t"
    [] c = "U" -> "u" [] c = "V" -> "v" [] c = "W" -> "w" [] c = "X" -> "x"
    [] c = "Y" -> "y" [] c = "Z" -> "z" [] OTHER -> c

to_ascii_lowercase(s) == [i \in 1..Len(s) |-> to_ascii_lowercase_char(s[i])]

\* Percent-encoding of one code point under an encode set.
percent_encode_char(c, set) ==
  IF c \in NonAscii THEN <<"%", "C", "3", "%", "A", "9">>
  ELSE IF c \notin set THEN <<c>>
  ELSE CASE c = " " -> <<"%", "2", "0">>
         [] c = "#" -> <<"%", "2", "3">>
         [] c = "/" -> <<"%", "2", "F">>
         [] c = ":" -> <<"%", "3", "A">>
         [] c = "@" -> <<"%", "4", "0">>
         [] c = "?" -> <<"%", "3", "F">>
         [] c = "{" -> <<"%", "7", "B">>
         [] c = "}" -> <<"%", "7", "D">>
         [] OTHER -> <<c>>

percent_encode(s, set) == concat_all([i \in 1..Len(s) |-> percent_encode_char(s[i], set)])

\* Url::parse("{value}://dummy.test").scheme(): a scheme is an ASCII letter followed
\* by letters, digits, "+", "-" and "."; it is lowercased.
canonicalize_protocol(value) ==
  IF value = <<>> THEN Ok(<<>>)
  ELSE IF value[1] \in Lower \cup Upper
          /\ \A i \in 2..Len(value) : value[i] \in Lower \cup Upper \cup Digit \cup {"+", "-", "."}
    THEN Ok(to_ascii_lowercase(value))
  ELSE Err("Url")

\* Url::set_fragment: the fragment percent-encode set.
canonicalize_hash(value) ==
  IF value = <<>> THEN Ok(<<>>) ELSE Ok(percent_encode(value, {" "}))

\* Url::set_query: the query percent-encode set.
canonicalize_search(value) ==
  IF value = <<>> THEN Ok(<<>>) ELSE Ok(percent_encode(value, {" ", "#"}))

\* url::quirks::set_hostname on http://dummy.test: ASCII letters are lowercased; a
\* forbidden host code point makes set_hostname fail, and the unwrap panic.
canonicalize_hostname(value) ==
  IF value = <<>> THEN Ok(<<>>)
  ELSE IF \E i \in 1..Len(value) :
            value[i] \in {" ", "#", "/", ":", "?", "@", "[", "\\", "]", "%"} \cup NonAscii
    THEN Panic
  ELSE Ok(to_ascii_lowercase(value))

canonicalize_ipv6_hostname(value) ==
  IF \A i \in 1..Len(value) :
       value[i] \in Digit \cup {"a", "b", "c", "d", "e", "f", "A", "B", "C", "D", "E", "F",
                                "[", "]", ":"}
    THEN Ok(to_ascii_lowercase(value))
  ELSE Err("SomeRandomOtherError")

RECURSIVE split_segments(_, _)
\* The segments of a path between "/" separators.
split_segments(s, cur) ==
  IF s = <<>> THEN <<cur>>
  ELSE IF Head(s) = "/" THEN <<cur>> \o split_segments(Tail(s), <<>>)
  ELSE split_segments(Tail(s), Append(cur, Head(s)))

RECURSIVE fold_segments(_, _)
\* The url crate's path parser: "." segments are dropped, ".." pops a segment, the
\* rest is percent-encoded with the path set; the result is the list of segments.
fold_segments(segs, acc) ==
  IF segs = <<>> THEN acc
  ELSE LET seg == Head(segs)
           last == Len(segs) = 1
       IN IF seg = <<".", ".">>
            THEN LET popped == IF acc = <<>> THEN <<>> ELSE SubSeq(acc, 1, Len(acc) - 1)
                 IN fold_segments(Tail(segs), IF last THEN Append(popped, <<>>) ELSE popped)
          ELSE IF seg = <<".">>
            THEN fold_segments(Tail(segs), IF last THEN Append(acc, <<>>) ELSE acc)
          ELSE fold_segments(Tail(segs),
                             Append(acc, percent_encode(seg, {" ", "#", "?", "{", "}"})))

RECURSIVE join_segments(_)
join_segments(segs) ==
  IF segs = <<>> THEN <<>> ELSE <<"/">> \o Head(segs) \o join_segments(Tail(segs))

\* Url::set_path on http://dummy.test, then url::quirks::pathname.
canonicalize_pathname(value) ==
  IF value = <<>> THEN Ok(<<>>)
  ELSE LET rest == IF value[1] \in {"/", "\\"} THEN Tail(value) ELSE value
           norm == [i \in 1..Len(rest) |-> IF rest[i] = "\\" THEN "/" ELSE rest[i]]
       IN Ok(join_segments(fold_segments(split_segments(norm, <<>>), <<>>)))

\* Url::set_path on data:dummy,test (a cannot-be-a-base URL): the path is opaque.
canonicalize_cannot_be_a_base_url_pathname(value) ==
  IF value = <<>> THEN Ok(<<>>) ELSE Ok(percent_encode(value, {}))

\* Url::set_username on http://dummy.test: the userinfo percent-encode set.
canonicalize_username(value) ==
  IF value = <<>> THEN Ok(<<>>) ELSE Ok(percent_encode(value, {" ", "#", "?", "{", "}", "/", ":", "@"}))

\* Url::set_password on http://dummy.test: the userinfo percent-encode set.
canonicalize_password(value) ==
  IF value = <<>> THEN Ok(<<>>) ELSE Ok(percent_encode(value, {" ", "#", "?", "{", "}", "/", ":", "@"}))

digit_value(c) == CHOOSE k \in 0..9 : to_string(k) = <<c>>

RECURSIVE u16_digits(_, _)
u16_digits(s, acc) ==
  IF s = <<>> THEN Some(acc)
  ELSE IF Head(s) \notin Digit THEN None
  ELSE IF acc * 10 + digit_value(Head(s)) > 65535 THEN None
  ELSE u16_digits(Tail(s), acc * 10 + digit_value(Head(s)))

\* str::parse::<u16>: decimal digits after an optional "+", at most 65535.
parse_u16(s) ==
  LET digits == IF s # <<>> /\ s[1] = "+" THEN Tail(s) ELSE s
  IN IF digits = <<>> THEN None ELSE u16_digits(digits, 0)

\* The url crate's default port of a scheme.
url_default_port(scheme) ==
  CASE scheme \in {<<"h", "t", "t", "p">>, <<"w", "s">>} -> Some(80)
    [] scheme \in {<<"h", "t", "t", "p", "s">>, <<"w", "s", "s">>} -> Some(443)
    [] scheme = <<"f", "t", "p">> -> Some(21)
    [] OTHER -> None

\* canonicalize_port: the port is set on {protocol or "dummy"}://dummy.test and read
\* back; Url::parse fails on a malformed scheme and set_port on a file URL, and
\* both are unwrapped.
canonicalize_port(value, protocol) ==
  LET scheme == IF ~protocol.some \/ protocol.v = <<>> THEN <<"d", "u", "m", "m", "y">>
                ELSE protocol.v
      set(port) ==
        IF ~port.some THEN Err("Url")
        ELSE IF canonicalize_protocol(scheme).st # "ok" THEN Panic
        ELSE IF to_ascii_lowercase(scheme) = <<"f", "i", "l", "e">> THEN Panic
        ELSE IF url_default_port(to_ascii_lowercase(scheme)) = Some(port.v) THEN Ok(<<>>)
        ELSE Ok(to_string(port.v))
  IN IF value = <<>> THEN Ok(<<>>) ELSE set(parse_u16(value))

\* The encoding callback handed to Component::compile, by component name.
encoding_callback(cb, value) ==
  CASE cb = "protocol" -> canonicalize_protocol(value)
    [] cb = "username" -> canonicalize_username(value)
    [] cb = "password" -> canonicalize_password(value)
    [] cb = "hostname" -> canonicalize_hostname(value)
    [] cb = "ipv6_hostname" -> canonicalize_ipv6_hostname(value)
    [] cb = "port" -> canonicalize_port(value, None)
    [] cb = "pathname" -> canonicalize_pathname(value)
    [] cb = "cannot_be_a_base_url_pathname" -> canonicalize_cannot_be_a_base_url_pathname(value)
    [] cb = "search" -> canonicalize_search(value)
    [] cb = "hash" -> canonicalize_hash(value)

\* ------------------------------------------------------------------------
\* Pattern parser (parser.rs)
\* ------------------------------------------------------------------------

FULL_WILDCARD_REGEXP_VALUE == <<".", "*">>

Options(delimiter_code_point, prefix_code_point) ==
  [delimiter_code_point |-> delimiter_code_point, prefix_code_point |-> prefix_code_point]

\* The presets: Default::default(), Options::hostname(), Options::pathname().
options_default == Options(<<>>, <<>>)
options_hostname == Options(<<".">>, <<>>)
options_pathname == Options(<<"/">>, <<"/">>)

escape_regexp_char(c) ==
  IF c \in {".", "+", "*", "?", "^", "$", "{", "}", "(", ")", "[", "]", "|", "/", "\\"}
    THEN <<"\\", c>> ELSE <<c>>

escape_regexp_string(input) ==
  concat_all([i \in 1..Len(input) |-> escape_regexp_char(input[i])])

generate_segment_wildcard_regexp(options) ==
  <<"[", "^">> \o escape_regexp_string(options.delimiter_code_point) \o <<"]", "+", "?">>

Part(kind, value, modifier, name, prefix, suffix) ==
  [kind |-> kind, value |-> value, modifier |-> modifier, name |-> name,
   prefix |-> prefix, suffix |-> suffix]

\* Part::new
Part_new(kind, value, modifier) == Part(kind, value, modifier, <<>>, <<>>, <<>>)

NoToken == [kind |-> "None", index |-> 0, value |-> <<>>]

is_some(token) == token.kind # "None"

\* A pattern parser: st is "run", "err" or "panic"; cb names the encoding callback.
PatternParser(token_list, cb, segment_wildcard_regexp) ==
  [token_list |-> token_list, cb |-> cb,
   segment_wildcard_regexp |-> segment_wildcard_regexp, part_list |-> <<>>,
   pending_fixed_value |-> <<>>, index |-> 0, next_numeric_name |-> 0,
   st |-> "run", tok |-> NoToken]

\* try_consume_token: the parser, with the consumed token (or NoToken) in tok.
try_consume_token(p, kind) ==
  IF p.st # "run" THEN [p EXCEPT !.tok = NoToken]
  ELSE IF ~(p.index < Len(p.token_list)) THEN [p EXCEPT !.st = "panic", !.tok = NoToken]
  ELSE LET next_token == p.token_list[p.index + 1]
       IN IF next_token.kind # kind THEN [p EXCEPT !.tok = NoToken]
          ELSE [p EXCEPT !.index = p.index + 1, !.tok = next_token]

try_consume_regexp_or_wildcard_token(p, name_token) ==
  Bind(try_consume_token(p, "Regexp"), LAMBDA p1 :
    IF ~is_some(name_token) /\ ~is_some(p1.tok)
      THEN try_consume_token(p1, "Asterisk") ELSE p1)

try_consume_modifier_token(p) ==
  Bind(try_consume_token(p, "OtherModifier"), LAMBDA p1 :
    IF is_some(p1.tok) THEN p1 ELSE try_consume_token(p1, "Asterisk"))

\* The "?" of a failing encoding callback: the parser stops with its outcome.
parser_stop(p, r) == [p EXCEPT !.st = r.st]

maybe_add_part_from_pending_fixed_value(p) ==
  IF p.st # "run" THEN p
  ELSE IF p.pending_fixed_value = <<>> THEN p
  ELSE Bind(encoding_callback(p.cb, p.pending_fixed_value), LAMBDA encoded_value :
         IF encoded_value.st # "ok" THEN parser_stop(p, encoded_value)
         ELSE [p EXCEPT !.pending_fixed_value = <<>>,
                        !.part_list = Append(@, Part_new("FixedText", encoded_value.v, "None"))])

\* A variant of modifier_of that reads no modifier from the token.
modifier_of_none(modifier_token) == "None"

\* The modifier of add_part: "unreachable" is the unreachable!() arm.
modifier_of(modifier_token) ==
  IF ~is_some(modifier_token) THEN "None"
  ELSE CASE modifier_token.value = <<"?">> -> "Optional"
         [] modifier_token.value = <<"*">> -> "ZeroOrMore"
         [] modifier_token.value = <<"+">> -> "OneOrMore"
         [] OTHER -> "unreachable"

\* A variant of matching_part that numbers an unnamed part by the parts parsed
\* before it.
matching_part_by_position(p, name_token, regexp_or_wildcard_token, modifier, prefix, suffix) ==
  LET regexp_value0 == IF ~is_some(regexp_or_wildcard_token) THEN p.segment_wildcard_regexp
                       ELSE IF regexp_or_wildcard_token.kind = "Asterisk"
                         THEN FULL_WILDCARD_REGEXP_VALUE
                       ELSE regexp_or_wildcard_token.value
      kind == IF regexp_value0 = p.segment_wildcard_regexp THEN "SegmentWildcard"
              ELSE IF regexp_value0 = FULL_WILDCARD_REGEXP_VALUE THEN "FullWildcard"
              ELSE "Regexp"
      regexp_value == IF kind = "Regexp" THEN regexp_value0 ELSE <<>>
      name == IF is_some(name_token) THEN name_token.value
              ELSE to_string(Len(p.part_list))
  IN Part(kind, regexp_value, modifier, name, prefix, suffix)

\* The part add_part pushes for a name, a regexp or a wildcard.
matching_part(p, name_token, regexp_or_wildcard_token, modifier, prefix, suffix) ==
  LET regexp_value0 == IF ~is_some(regexp_or_wildcard_token) THEN p.segment_wildcard_regexp
                       ELSE IF regexp_or_wildcard_token.kind = "Asterisk"
                         THEN FULL_WILDCARD_REGEXP_VALUE
                       ELSE regexp_or_wildcard_token.value
      kind == IF regexp_value0 = p.segment_wildcard_regexp THEN "SegmentWildcard"
              ELSE IF regexp_value0 = FULL_WILDCARD_REGEXP_VALUE THEN "FullWildcard"
              ELSE "Regexp"
      regexp_value == IF kind = "Regexp" THEN regexp_value0 ELSE <<>>
      name == IF is_some(name_token) THEN name_token.value
              ELSE IF is_some(regexp_or_wildcard_token) THEN to_string(p.next_numeric_name)
              ELSE <<>>
  IN Part(kind, regexp_value, modifier, name, prefix, suffix)

add_part(p0, prefix, name_token, regexp_or_wildcard_token, suffix, modifier_token) ==
  IF p0.st # "run" THEN p0
  ELSE IF modifier_of(modifier_token) = "unreachable" THEN [p0 EXCEPT !.st = "panic"]
  ELSE IF ~is_some(name_token) /\ ~is_some(regexp_or_wildcard_token)
          /\ modifier_of(modifier_token) = "None"
    THEN [p0 EXCEPT !.pending_fixed_value = @ \o prefix]
  ELSE Bind(maybe_add_part_from_pending_fixed_value(p0), LAMBDA p :
    IF p.st # "run" THEN p
    ELSE IF ~is_some(name_token) /\ ~is_some(regexp_or_wildcard_token)
      THEN IF suffix # <<>> THEN [p EXCEPT !.st = "panic"]
           ELSE IF prefix = <<>> THEN p
           ELSE Bind(encoding_callback(p.cb, prefix), LAMBDA encoded_value :
                  IF encoded_value.st # "ok" THEN parser_stop(p, encoded_value)
                  ELSE [p EXCEPT !.part_list =
                          Append(@, Part_new("FixedText", encoded_value.v,
                                             modifier_of(modifier_token)))])
    ELSE Bind(encoding_callback(p.cb, prefix), LAMBDA encoded_prefix :
           IF encoded_prefix.st # "ok" THEN parser_stop(p, encoded_prefix)
           ELSE Bind(encoding_callback(p.cb, suffix), LAMBDA encoded_suffix :
                  IF encoded_suffix.st # "ok" THEN parser_stop(p, encoded_suffix)
                  ELSE [p EXCEPT
                          !.next_numeric_name =
                            IF ~is_some(name_token) /\ is_some(regexp_or_wildcard_token)
                              THEN @ + 1 ELSE @,
                          !.part_list =
                            Append(@, matching_part(p, name_token, regexp_or_wildcard_token,
                                                    modifier_of(modifier_token),
                                                    encoded_prefix.v, encoded_suffix.v))])))

RECURSIVE consume_text_loop(_, _)
\* consume_text: the parser, and the text in result.
consume_text_loop(p, result) ==
  Bind(try_consume_token(p, "Char"), LAMBDA p1 :
    Bind(IF is_some(p1.tok) THEN p1 ELSE try_consume_token(p1, "EscapedChar"), LAMBDA p2 :
      IF p2.st # "run" \/ ~is_some(p2.tok) THEN [p |-> p2, result |-> result]
      ELSE consume_text_loop(p2, result \o p2.tok.value)))

consume_text(p) == consume_text_loop(p, <<>>)

\* consume_required_token(kind)?
consume_required_token(p, kind) ==
  Bind(try_consume_token(p, kind), LAMBDA p1 :
    IF p1.st = "run" /\ ~is_some(p1.tok) THEN [p1 EXCEPT !.st = "err"] ELSE p1)

\* The "{ ... }" branch of the loop of parse_pattern_string, after the Open token
\* was tried.
parse_group(po) ==
  IF ~is_some(po.tok) THEN po
  ELSE Bind(consume_text(po), LAMBDA t1 :
    Bind(try_consume_token(t1.p, "Name"), LAMBDA g1 :
      Bind(try_consume_regexp_or_wildcard_token(g1, g1.tok), LAMBDA g2 :
        Bind(consume_text(g2), LAMBDA t2 :
          Bind(try_consume_modifier_token(
                          consume_required_token(t2.p, "Close")), LAMBDA g4 :
            add_part(g4, t1.result, g1.tok, g2.tok, t2.result, g4.tok))))))

\* The branch of the loop of parse_pattern_string for a name, a regexp or a
\* wildcard: the char token is the prefix unless it differs from the prefix code
\* point, and then it is flushed with the pending fixed value.
parse_matching(pr, options, char_token, name_token) ==
  LET prefix0 == IF is_some(char_token) THEN char_token.value ELSE <<>>
      flush == prefix0 # <<>> /\ prefix0 # options.prefix_code_point
  IN Bind(try_consume_modifier_token(
                     maybe_add_part_from_pending_fixed_value(
                       IF flush THEN [pr EXCEPT !.pending_fixed_value = @ \o prefix0]
                       ELSE pr)), LAMBDA p3 :
       add_part(p3, IF flush THEN <<>> ELSE prefix0, name_token, pr.tok, <<>>, p3.tok))

\* One iteration of the while loop of parse_pattern_string.
parse_pattern_string_step(p, options) ==
  Bind(try_consume_token(p, "Char"), LAMBDA pc :
    Bind(try_consume_token(pc, "Name"), LAMBDA pn :
      Bind(try_consume_regexp_or_wildcard_token(pn, pn.tok), LAMBDA pr :
        IF pr.st # "run" THEN pr
        ELSE IF is_some(pn.tok) \/ is_some(pr.tok)
          THEN parse_matching(pr, options, pc.tok, pn.tok)
        ELSE Bind(IF is_some(pc.tok) THEN pr
                           ELSE try_consume_token(pr, "EscapedChar"), LAMBDA pf :
          IF pf.st # "run" THEN pf
          ELSE IF is_some(pc.tok)
            THEN [pf EXCEPT !.pending_fixed_value = @ \o pc.tok.value]
          ELSE IF is_some(pf.tok)
            THEN [pf EXCEPT !.pending_fixed_value = @ \o pf.tok.value]
          ELSE consume_required_token(
                 maybe_add_part_from_pending_fixed_value(
                   parse_group(try_consume_token(pf, "Open"))),
                 "End")))))

RECURSIVE parse_pattern_string_loop(_, _)
parse_pattern_string_loop(p, options) ==
  IF p.st # "run" \/ ~(p.index < Len(p.token_list)) THEN p
  ELSE parse_pattern_string_loop(parse_pattern_string_step(p, options), options)

\* parse_pattern_string: [st |-> "ok", part_list |-> ...], or st "err" / "panic".
parse_pattern_string(input, options, cb) ==
  Bind(tokenize(input, "Strict"), LAMBDA t :
    IF t.st # "ok" THEN [st |-> t.st, part_list |-> <<>>]
    ELSE Bind(parse_pattern_string_loop(
                        PatternParser(t.token_list, cb,
                                      generate_segment_wildcard_regexp(options)),
                        options), LAMBDA p :
           IF p.st = "run" THEN [st |-> "ok", part_list |-> p.part_list]
           ELSE [st |-> p.st, part_list |-> <<>>]))

\* ------------------------------------------------------------------------
\* Regular expression, pattern string and matcher generation (component.rs)
\* ------------------------------------------------------------------------

\* Display of PartModifier.
modifier_to_string(modifier) ==
  CASE modifier = "None" -> <<>>
    [] modifier = "Optional" -> <<"?">>
    [] modifier = "ZeroOrMore" -> <<"*">>
    [] modifier = "OneOrMore" -> <<"+">>

\* The regexp source of one capture.
part_regexp_value(part, options) ==
  IF part.kind = "SegmentWildcard" THEN generate_segment_wildcard_regexp(options)
  ELSE IF part.kind = "FullWildcard" THEN FULL_WILDCARD_REGEXP_VALUE
  ELSE part.value

\* The text generate_regular_expression_and_name_list pushes for one part.
part_regexp_string(part, options) ==
  LET esc(x) == escape_regexp_string(x)
      regexp_value == part_regexp_value(part, options)
      mod == modifier_to_string(part.modifier)
  IN
  IF part.kind = "FixedText"
    THEN IF part.modifier = "None" THEN Ok(esc(part.value))
         ELSE Ok(<<"(", "?", ":">> \o esc(part.value) \o <<")">> \o mod)
  ELSE IF part.name = <<>> THEN Panic
  ELSE IF part.prefix = <<>> /\ part.suffix = <<>>
    THEN IF part.modifier \in {"None", "Optional"}
           THEN Ok(<<"(">> \o regexp_value \o <<")">> \o mod)
         ELSE Ok(<<"(", "(", "?", ":">> \o regexp_value \o <<")">> \o mod \o <<")">>)
  ELSE IF part.modifier \in {"None", "Optional"}
    THEN Ok(<<"(", "?", ":">> \o esc(part.prefix) \o <<"(">> \o regexp_value \o <<")">>
            \o esc(part.suffix) \o <<")">> \o mod)
  ELSE Ok(<<"(", "?", ":">> \o esc(part.prefix) \o <<"(", "(", "?", ":">> \o regexp_value
          \o <<")", "(", "?", ":">> \o esc(part.suffix) \o esc(part.prefix)
          \o <<"(", "?", ":">> \o regexp_value \o <<")", ")", "*", ")">> \o esc(part.suffix)
          \o <<")">> \o (IF part.modifier = "ZeroOrMore" THEN <<"?">> ELSE <<>>))

\* A variant of name_list_of that pushes the name of every part, FixedText too.
name_list_of_all_parts(part_list) == [i \in 1..Len(part_list) |-> part_list[i].name]

\* The names generate_regular_expression_and_name_list pushes.
RECURSIVE name_list_of(_)
name_list_of(part_list) ==
  IF part_list = <<>> THEN <<>>
  ELSE IF Head(part_list).kind = "FixedText" THEN name_list_of(Tail(part_list))
  ELSE <<Head(part_list).name>> \o name_list_of(Tail(part_list))

\* [st, regexp_string, name_list]
generate_regular_expression_and_name_list(part_list, options) ==
  Bind([i \in 1..Len(part_list) |->
                       part_regexp_string(part_list[i], options)], LAMBDA pieces :
    IF \E i \in 1..Len(part_list) : pieces[i].st # "ok"
      THEN [st |-> "panic", regexp_string |-> <<>>, name_list |-> <<>>]
    ELSE [st |-> "ok",
          regexp_string |-> <<"^">> \o concat_all([i \in 1..Len(part_list) |-> pieces[i].v])
                            \o <<"$">>,
          name_list |-> name_list_of(part_list)])

escape_pattern_char(c) ==
  IF c \in {"+", "*", "?", ":", "{", "}", "(", ")", "\\"} THEN <<"\\", c>> ELSE <<c>>

escape_pattern_string(input) ==
  concat_all([i \in 1..Len(input) |-> escape_pattern_char(input[i])])

\* The text generate_pattern_string pushes for part i of the list.
part_pattern_string(part_list, i, options) ==
  LET part == part_list[i]
      has_prev == i > 1
      has_next == i < Len(part_list)
      prev_part == part_list[i - 1]
      next_part == part_list[i + 1]
      mod == modifier_to_string(part.modifier)
  IN
  IF part.kind = "FixedText"
    THEN IF part.modifier = "None" THEN Ok(escape_pattern_string(part.value))
         ELSE Ok(<<"{">> \o escape_pattern_string(part.value) \o <<"}">> \o mod)
  ELSE IF part.name = <<>> THEN Panic
  ELSE
  LET custom_name == ~is_ascii_digit(part.name[1])
      g1 == part.suffix # <<>>
            \/ (part.prefix # <<>> /\ part.prefix # options.prefix_code_point)
      look == ~g1 /\ custom_name /\ part.kind = "SegmentWildcard"
              /\ part.modifier = "None"
              /\ has_next /\ next_part.prefix = <<>> /\ next_part.suffix = <<>>
      \* next_part.name.chars().next().unwrap()
      look_panic == look /\ next_part.kind # "FixedText" /\ next_part.name = <<>>
      g2 == IF look
              THEN IF next_part.kind = "FixedText"
                     THEN next_part.value # <<>>
                          /\ is_valid_name_codepoint(next_part.value[1], FALSE)
                   ELSE next_part.name # <<>> /\ is_ascii_digit(next_part.name[1])
            ELSE g1
      check_prev == ~g2 /\ part.prefix = <<>> /\ has_prev /\ prev_part.kind = "FixedText"
      \* value.chars().last().unwrap()
      prev_panic == check_prev /\ prev_part.value = <<>>
      needs_grouping == g2 \/ (check_prev /\ prev_part.value # <<>>
                               /\ <<prev_part.value[Len(prev_part.value)]>>
                                    = options.prefix_code_point)
      body == CASE part.kind = "Regexp" -> <<"(">> \o part.value \o <<")">>
                [] part.kind = "SegmentWildcard" /\ ~custom_name ->
                     <<"(">> \o generate_segment_wildcard_regexp(options) \o <<")">>
                [] part.kind = "SegmentWildcard" /\ custom_name -> <<>>
                [] part.kind = "FullWildcard" ->
                     IF ~custom_name
                        /\ (~has_prev \/ prev_part.kind = "FixedText"
                            \/ prev_part.modifier # "None" \/ needs_grouping
                            \/ part.prefix # <<>>)
                       THEN <<"*">>
                     ELSE <<"(">> \o FULL_WILDCARD_REGEXP_VALUE \o <<")">>
      guard == part.kind = "SegmentWildcard" /\ custom_name /\ part.suffix # <<>>
               /\ is_valid_name_codepoint(part.suffix[1], FALSE)
  IN IF look_panic \/ prev_panic THEN Panic
     ELSE Ok((IF needs_grouping THEN <<"{">> ELSE <<>>)
             \o escape_pattern_string(part.prefix)
             \o (IF custom_name THEN <<":">> \o part.name ELSE <<>>)
             \o body
             \o (IF guard THEN <<"\\">> ELSE <<>>)
             \o escape_pattern_string(part.suffix)
             \o (IF needs_grouping THEN <<"}">> ELSE <<>>)
             \o mod)

\* Ok(pattern string), or Panic.
generate_pattern_string(part_list, options) ==
  Bind([i \in 1..Len(part_list) |->
                       part_pattern_string(part_list, i, options)], LAMBDA pieces :
    IF \E i \in 1..Len(part_list) : pieces[i].st # "ok" THEN Panic
    ELSE Ok(concat_all([i \in 1..Len(part_list) |-> pieces[i].v])))

\* ------------------------------------------------------------------------
\* The RegExp capability: parse(source) and matches(input), a backtracking
\* engine for the syntax the generator emits (groups, classes, ".", escapes,
\* anchors, alternation, the quantifiers "?", "*", "+" and their lazy forms).
\* "[^]" matches any code point.
\* ------------------------------------------------------------------------

Node(t, set, neg, kids, lazy, idx) ==
  [t |-> t, set |-> set, neg |-> neg, kids |-> kids, lazy |-> lazy, idx |-> idx]

ReFail == [ok |-> FALSE, node |-> Node("fail", {}, FALSE, <<>>, FALSE, 0), i |-> 0, n |-> 0]

ReOk(node, i, n) == [ok |-> TRUE, node |-> node, i |-> i, n |-> n]

RECURSIVE re_class(_, _, _)
\* The items of a character class from position i: [ok, set, i] with i after "]".
re_class(re, i, set) ==
  IF i > Len(re) THEN [ok |-> FALSE, set |-> {}, i |-> 0]
  ELSE IF re[i] = "]" THEN [ok |-> TRUE, set |-> set, i |-> i + 1]
  ELSE IF re[i] = "\\"
    THEN IF i + 1 > Len(re) THEN [ok |-> FALSE, set |-> {}, i |-> 0]
         ELSE re_class(re, i + 2, set \cup {re[i + 1]})
  ELSE re_class(re, i + 1, set \cup {re[i]})

RECURSIVE re_alt(_, _, _, _)
RECURSIVE re_seq(_, _, _, _)
RECURSIVE re_atom(_, _, _)

\* One atom with its quantifier, from position i; n capture groups were opened so far.
re_atom(re, i, n) ==
  LET c == re[i]
      non_capturing == i + 2 <= Len(re) /\ re[i + 1] = "?" /\ re[i + 2] = ":"
      lookaround == ~non_capturing /\ i + 1 <= Len(re) /\ re[i + 1] = "?"
      neg == i + 1 <= Len(re) /\ re[i + 1] = "^"
      group(r) ==
        IF r.ok /\ r.i <= Len(re) /\ re[r.i] = ")"
          THEN ReOk(IF non_capturing THEN r.node
                    ELSE Node("cap", {}, FALSE, <<r.node>>, FALSE, n + 1),
                    r.i + 1, r.n)
        ELSE ReFail
      class(r) == IF r.ok THEN ReOk(Node("set", r.set, neg, <<>>, FALSE, 0), r.i, n)
                  ELSE ReFail
      quantified(a) ==
        IF ~a.ok THEN ReFail
        ELSE IF a.i <= Len(re) /\ re[a.i] \in {"*", "+", "?"}
          THEN LET lazy == a.i + 1 <= Len(re) /\ re[a.i + 1] = "?"
                   j == IF lazy THEN a.i + 2 ELSE a.i + 1
                   t == CASE re[a.i] = "*" -> "star" [] re[a.i] = "+" -> "plus"
                          [] re[a.i] = "?" -> "opt"
               IN IF a.node.t \in {"bol", "eol"}
                     \/ (j <= Len(re) /\ re[j] \in {"*", "+", "?"})
                    THEN ReFail
                  ELSE ReOk(Node(t, {}, FALSE, <<a.node>>, lazy, 0), j, a.n)
        ELSE a
  IN quantified(
       IF c = "("
         THEN IF lookaround THEN ReFail
              ELSE group(re_alt(re, IF non_capturing THEN i + 3 ELSE i + 1,
                                IF non_capturing THEN n ELSE n + 1, <<>>))
       ELSE IF c = "[" THEN class(re_class(re, IF neg THEN i + 2 ELSE i + 1, {}))
       ELSE IF c = "." THEN ReOk(Node("set", {}, TRUE, <<>>, FALSE, 0), i + 1, n)
       ELSE IF c = "\\"
         THEN IF i + 1 > Len(re) \/ re[i + 1] \in Lower \cup Upper \cup Digit THEN ReFail
              ELSE ReOk(Node("set", {re[i + 1]}, FALSE, <<>>, FALSE, 0), i + 2, n)
       ELSE IF c = "^" THEN ReOk(Node("bol", {}, FALSE, <<>>, FALSE, 0), i + 1, n)
       ELSE IF c = "$" THEN ReOk(Node("eol", {}, FALSE, <<>>, FALSE, 0), i + 1, n)
       ELSE IF c \in {"*", "+", "?", "{", "}", "]", ")", "|"} THEN ReFail
       ELSE ReOk(Node("set", {c}, FALSE, <<>>, FALSE, 0), i + 1, n))

\* A run of atoms up to "|", ")" or the end.
re_seq(re, i, n, kids) ==
  IF i > Len(re) \/ re[i] \in {"|", ")"}
    THEN ReOk(Node("seq", {}, FALSE, kids, FALSE, 0), i, n)
  ELSE Bind(re_atom(re, i, n), LAMBDA a :
         IF ~a.ok THEN ReFail ELSE re_seq(re, a.i, a.n, Append(kids, a.node)))

\* Alternatives separated by "|".
re_alt(re, i, n, alts) ==
  Bind(re_seq(re, i, n, <<>>), LAMBDA r :
    IF ~r.ok THEN ReFail
    ELSE IF r.i <= Len(re) /\ re[r.i] = "|"
      THEN re_alt(re, r.i + 1, r.n, Append(alts, r.node))
    ELSE ReOk(Node("alt", {}, FALSE, Append(alts, r.node), FALSE, 0), r.i, r.n))

\* RegExp::parse: [ok, node, n] with n the number of capture groups.
regexp_parse(source) ==
  Bind(re_alt(source, 1, 0, <<>>), LAMBDA r :
    IF r.ok /\ r.i = Len(source) + 1 THEN [ok |-> TRUE, node |-> r.node, n |-> r.n]
    ELSE [ok |-> FALSE, node |-> ReFail.node, n |-> 0])

NoCapture == <<-1, -1>>

RECURSIVE re_m(_, _, _, _)
RECURSIVE re_m_seq(_, _, _)
RECURSIVE re_m_each(_, _, _)
RECURSIVE re_m_alt(_, _, _, _)
RECURSIVE re_m_star(_, _, _, _, _)

\* The ways node matches s from pos, in the engine's order of preference: a
\* sequence of [pos, caps].
re_m(node, s, pos, caps) ==
  CASE node.t = "set" ->
         IF pos < Len(s) /\ ((s[pos + 1] \in node.set) # node.neg)
           THEN <<[pos |-> pos + 1, caps |-> caps]>> ELSE <<>>
    [] node.t = "bol" -> IF pos = 0 THEN <<[pos |-> pos, caps |-> caps]>> ELSE <<>>
    [] node.t = "eol" -> IF pos = Len(s) THEN <<[pos |-> pos, caps |-> caps]>> ELSE <<>>
    [] node.t = "seq" -> re_m_seq(node.kids, s, <<[pos |-> pos, caps |-> caps]>>)
    [] node.t = "alt" -> re_m_alt(node.kids, s, pos, caps)
    [] node.t = "cap" ->
         LET rs == re_m(node.kids[1], s, pos, caps)
         IN [k \in 1..Len(rs) |->
               [pos |-> rs[k].pos,
                caps |-> [rs[k].caps EXCEPT ![node.idx] = <<pos, rs[k].pos>>]]]
    [] node.t = "opt" ->
         LET rs == re_m(node.kids[1], s, pos, caps)
             skip == <<[pos |-> pos, caps |-> caps]>>
         IN IF node.lazy THEN skip \o rs ELSE rs \o skip
    [] node.t = "star" -> re_m_star(node.kids[1], node.lazy, s, pos, caps)
    [] node.t = "plus" ->
         LET rs == re_m(node.kids[1], s, pos, caps)
         IN concat_all([k \in 1..Len(rs) |->
              IF rs[k].pos > pos
                THEN re_m_star(node.kids[1], node.lazy, s, rs[k].pos, rs[k].caps)
              ELSE <<rs[k]>>])

re_m_each(node, s, rs) ==
  IF rs = <<>> THEN <<>>
  ELSE re_m(node, s, Head(rs).pos, Head(rs).caps) \o re_m_each(node, s, Tail(rs))

re_m_seq(kids, s, rs) ==
  IF kids = <<>> \/ rs = <<>> THEN rs
  ELSE re_m_seq(Tail(kids), s, re_m_each(Head(kids), s, rs))

re_m_alt(kids, s, pos, caps) ==
  IF kids = <<>> THEN <<>>
  ELSE re_m(Head(kids), s, pos, caps) \o re_m_alt(Tail(kids), s, pos, caps)

re_m_star(kid, lazy, s, pos, caps) ==
  LET rs == re_m(kid, s, pos, caps)
      more == concat_all([k \in 1..Len(rs) |->
                IF rs[k].pos > pos THEN re_m_star(kid, lazy, s, rs[k].pos, rs[k].caps)
                ELSE <<>>])
      stop == <<[pos |-> pos, caps |-> caps]>>
  IN IF lazy THEN stop \o more ELSE more \o stop

RECURSIVE re_search(_, _, _)
\* The leftmost match: the first start position with a way to match.
re_search(r, s, start) ==
  IF start > Len(s) THEN None
  ELSE Bind(re_m(r.node, s, start, [k \in 1..r.n |-> NoCapture]), LAMBDA rs :
         IF rs # <<>> THEN Some(rs[1].caps) ELSE re_search(r, s, start + 1))

\* RegExp::matches: None, or Some(captures), each capture None or Some(text).
regexp_matches(r, input) ==
  Bind(re_search(r, input, 0), LAMBDA m :
    IF ~m.some THEN None
    ELSE Some([k \in 1..r.n |->
                 IF m.v[k] = NoCapture THEN None
                 ELSE Some(SubSeq(input, m.v[k][1] + 1, m.v[k][2]))]))

\* ------------------------------------------------------------------------
\* Matcher (matcher.rs) and its generation (component.rs)
\* ------------------------------------------------------------------------

\* A regexp slot holds Ok(parsed) or Err("RegExp").
RegExp_parse(regexp_string) ==
  Bind(regexp_parse(regexp_string), LAMBDA r : IF r.ok THEN Ok(r) ELSE Err("RegExp"))

Matcher(prefix, suffix, kind, literal, filter, allow_empty, regexp) ==
  [prefix |-> prefix, suffix |-> suffix, kind |-> kind, literal |-> literal,
   filter |-> filter, allow_empty |-> allow_empty, regexp |-> regexp]

Matcher_literal(literal) == Matcher(<<>>, <<>>, "Literal", literal, None, FALSE, Err("none"))

\* A variant of is_literal that takes a FixedText part with any modifier for a literal.
is_literal_any_modifier(part) == part.kind = "FixedText"

is_literal_or_wildcard(part) ==
  part.modifier = "None" /\ part.kind \in {"FixedText", "FullWildcard"}

is_literal(part) == part.kind = "FixedText" /\ part.modifier = "None"

generate_matcher(part_list0, options) ==
  LET first_lit == part_list0 # <<>> /\ is_literal(Head(part_list0))
      prefix0 == IF first_lit THEN Head(part_list0).value ELSE <<>>
      part_list1 == IF first_lit THEN Tail(part_list0) ELSE part_list0
      last_lit == part_list1 # <<>> /\ is_literal(part_list1[Len(part_list1)])
      suffix0 == IF last_lit THEN part_list1[Len(part_list1)].value ELSE <<>>
      part_list == IF last_lit THEN SubSeq(part_list1, 1, Len(part_list1) - 1) ELSE part_list1
  IN IF part_list = <<>> THEN Matcher_literal(prefix0 \o suffix0)
     ELSE IF Len(part_list) = 1 /\ part_list[1].kind = "FullWildcard"
             /\ part_list[1].modifier = "None"
       THEN Matcher(prefix0 \o part_list[1].prefix, part_list[1].suffix \o suffix0,
                    "SingleCapture", <<>>, None, TRUE, Err("none"))
     ELSE IF Len(part_list) = 1 /\ part_list[1].kind = "SegmentWildcard"
             /\ part_list[1].modifier = "None"
       THEN Matcher(prefix0 \o part_list[1].prefix, part_list[1].suffix \o suffix0,
                    "SingleCapture", <<>>,
                    IF options.delimiter_code_point = <<>> THEN None
                    ELSE Some(options.delimiter_code_point),
                    FALSE, Err("none"))
     ELSE Matcher(prefix0, suffix0, "RegExp", <<>>, None, FALSE,
                  RegExp_parse(generate_regular_expression_and_name_list(part_list, options)
                                 .regexp_string))

\* str::contains with a substring pattern.
contains(s, sub) ==
  \E k \in 0..(Len(s) - Len(sub)) : SubSeq(s, k + 1, k + Len(sub)) = sub

\* Matcher::matches: Ok(None), Ok(Some(captures)), or Panic (unwrap of a failed
\* regexp, or a slice that does not fall on a character boundary).
Matcher_matches(m, input0) ==
  LET prefix_len == str_len(m.prefix)
      suffix_len == str_len(m.suffix)
      input_len == str_len(input0)
      strip == prefix_len + suffix_len > 0
      sliced == str_get(input0, prefix_len, input_len - suffix_len)
      input == IF strip THEN sliced.v ELSE input0
  IN IF strip /\ input_len < prefix_len + suffix_len THEN Ok(None)
     ELSE IF strip /\ ~starts_with(input0, m.prefix) THEN Ok(None)
     ELSE IF strip /\ ~ends_with(input0, m.suffix) THEN Ok(None)
     ELSE IF strip /\ ~sliced.some THEN Panic
     ELSE CASE m.kind = "Literal" ->
                 IF input = m.literal THEN Ok(Some(<<>>)) ELSE Ok(None)
            [] m.kind = "SingleCapture" ->
                 IF input = <<>> /\ ~m.allow_empty THEN Ok(None)
                 ELSE IF m.filter.some /\ contains(input, m.filter.v) THEN Ok(None)
                 ELSE Ok(Some(<<Some(input)>>))
            [] m.kind = "RegExp" ->
                 IF m.regexp.st # "ok" THEN Panic
                 ELSE Ok(regexp_matches(m.regexp.v, input))

\* ------------------------------------------------------------------------
\* Component (component.rs)
\* ------------------------------------------------------------------------

\* Component::compile: [st, pattern_string, regexp, group_name_list, matcher, part_list].
Component_compile(input, cb, options) ==
  LET blank(st) == [st |-> st, pattern_string |-> <<>>, regexp |-> Err("none"),
                    group_name_list |-> <<>>, matcher |-> Matcher_literal(<<>>),
                    part_list |-> <<>>]
  IN Bind(parse_pattern_string(IF input.some THEN input.v ELSE <<"*">>,
                                        options, cb), LAMBDA r :
       IF r.st # "ok" THEN blank(r.st)
       ELSE Bind(generate_regular_expression_and_name_list(r.part_list,
                                                                      options), LAMBDA gen :
         Bind(generate_pattern_string(r.part_list, options), LAMBDA pattern_string :
           IF pattern_string.st # "ok" THEN blank("panic")
           ELSE [st |-> "ok", pattern_string |-> pattern_string.v,
                 regexp |-> RegExp_parse(gen.regexp_string),
                 group_name_list |-> gen.name_list,
                 matcher |-> generate_matcher(r.part_list, options),
                 part_list |-> r.part_list])))

SPECIAL_SCHEMES ==
  << <<"f","t","p">>, <<"f","i","l","e">>, <<"h","t","t","p">>,
     <<"h","t","t","p","s">>, <<"w","s">>, <<"w","s","s">> >>

protocol_component_matches_special_scheme(component) ==
  component.regexp.st = "ok"
  /\ \E k \in 1..Len(SPECIAL_SCHEMES) :
       regexp_matches(component.regexp.v, SPECIAL_SCHEMES[k]).some

\* create_match_result: the name list zipped with the captures; the result's
\* groups are the set of (name, value) pairs, later pairs of one name
\* replacing earlier ones as in a map.
create_match_result(component, input, exec_result) ==
  LET n == IF Len(component.group_name_list) < Len(exec_result)
             THEN Len(component.group_name_list) ELSE Len(exec_result)
      names == {component.group_name_list[k] : k \in 1..n}
      last(name) == CHOOSE k \in 1..n :
                      /\ component.group_name_list[k] = name
                      /\ \A j \in (k + 1)..n : component.group_name_list[j] # name
  IN [input |-> input, groups |-> [name \in names |-> exec_result[last(name)]]]

\* ------------------------------------------------------------------------
\* Constructor string parser (constructor_parser.rs)
\* ------------------------------------------------------------------------

\* UrlPatternInit, every field None.
UrlPatternInit_default ==
  [protocol |-> None, username |-> None, password |-> None, hostname |-> None,
   port |-> None, pathname |-> None, search |-> None, hash |-> None, base_url |-> None]

\* The parser at the start of parse_constructor_string; st is "run", "done"
\* (the loop was left), "err" (a ParseError was returned) or "panic".
ConstructorStringParser(input, token_list) ==
  [input |-> input, token_list |-> token_list, result |-> UrlPatternInit_default,
   component_start |-> 0, token_index |-> 0, token_increment |-> 1, group_depth |-> 0,
   should_treat_as_standard_url |-> FALSE, state |-> "Init", st |-> "run"]

rewind(p) == [p EXCEPT !.token_index = p.component_start, !.token_increment = 0]

\* get_safe_token panics when the index is past the list and the list is not
\* a lone End token.
get_safe_token_panics(p, index) ==
  /\ index >= Len(p.token_list)
  /\ ~(Len(p.token_list) = 1 /\ p.token_list[1].kind = "End")

get_safe_token(p, index) ==
  IF index < Len(p.token_list) THEN p.token_list[index + 1]
  ELSE p.token_list[Len(p.token_list)]

is_non_special_pattern_char_any_kind(p, index, value) ==
  get_safe_token(p, index).value = <<value>>

is_non_special_pattern_char(p, index, value) ==
  LET token == get_safe_token(p, index)
  IN token.value = <<value>> /\ token.kind \in {"Char", "EscapedChar", "InvalidChar"}

is_hash_prefix(p) == is_non_special_pattern_char(p, p.token_index, "#")

is_protocol_suffix(p) == is_non_special_pattern_char(p, p.token_index, ":")

\* is_search_prefix computes token_index - 1 in usize: at token_index 0 the
\* subtraction overflows, or wraps to an index get_safe_token rejects.
is_search_prefix_panics(p) ==
  /\ ~is_non_special_pattern_char(p, p.token_index, "?")
  /\ p.token_list[p.token_index + 1].value = <<"?">>
  /\ p.token_index = 0

is_search_prefix(p) ==
  IF is_non_special_pattern_char(p, p.token_index, "?") THEN TRUE
  ELSE IF p.token_list[p.token_index + 1].value # <<"?">> THEN FALSE
  ELSE get_safe_token(p, p.token_index - 1).kind
         \notin {"Name", "Regexp", "Close", "Asterisk"}

is_password_prefix(p) == is_non_special_pattern_char(p, p.token_index, ":")

is_port_prefix(p) == is_non_special_pattern_char(p, p.token_index, ":")

is_pathname_start(p) == is_non_special_pattern_char(p, p.token_index, "/")

is_identity_terminator(p) == is_non_special_pattern_char(p, p.token_index, "@")

\* Ok(the text from the component's first token to the current token), or Panic.
make_component_string(p) ==
  IF ~(p.token_index < Len(p.token_list)) \/ get_safe_token_panics(p, p.component_start)
    THEN Panic
  ELSE LET token == p.token_list[p.token_index + 1]
           component_start_token == get_safe_token(p, p.component_start)
           s == str_get(p.input, component_start_token.index, token.index)
       IN IF s.some THEN Ok(s.v) ELSE Panic

\* change_state assigns the component string to the field of the state it
\* is given, the state being entered.
change_state(p, state, skip) ==
  LET assigns == state \in {"Protocol", "Username", "Password", "Hostname", "Port",
                            "Pathname", "Search", "Hash"}
  IN Bind(IF assigns THEN make_component_string(p) ELSE Ok(<<>>), LAMBDA s :
        IF assigns /\ s.st # "ok" THEN [p EXCEPT !.st = "panic"]
        ELSE [p EXCEPT !.result =
                         CASE state = "Protocol" -> [p.result EXCEPT !.protocol = Some(s.v)]
                           [] state = "Username" -> [p.result EXCEPT !.username = Some(s.v)]
                           [] state = "Password" -> [p.result EXCEPT !.password = Some(s.v)]
                           [] state = "Hostname" -> [p.result EXCEPT !.hostname = Some(s.v)]
                           [] state = "Port" -> [p.result EXCEPT !.port = Some(s.v)]
                           [] state = "Pathname" -> [p.result EXCEPT !.pathname = Some(s.v)]
                           [] state = "Search" -> [p.result EXCEPT !.search = Some(s.v)]
                           [] state = "Hash" -> [p.result EXCEPT !.hash = Some(s.v)]
                           [] OTHER -> p.result,
                       !.state = state,
                       !.component_start = p.token_index + skip,
                       !.token_index = p.token_index + skip,
                       !.token_increment = 0])

rewind_and_set_init(p, state) == [rewind(p) EXCEPT !.state = "Init"]

rewind_and_keep_state(p, state) == rewind(p)

rewind_and_set_state(p, state) == [rewind(p) EXCEPT !.state = state]

is_group_open_never(p) == FALSE

is_group_open(p) == p.token_list[p.token_index + 1].kind = "Open"

is_group_close(p) == p.token_list[p.token_index + 1].kind = "Close"

compute_should_treat_as_standard_url(p) ==
  Bind(make_component_string(p), LAMBDA protocol_string :
    IF protocol_string.st # "ok" THEN [p EXCEPT !.st = "panic"]
    ELSE Bind(Component_compile(Some(protocol_string.v),
                                                          "protocol", options_default), LAMBDA protocol_component :
           IF protocol_component.st # "ok" THEN [p EXCEPT !.st = protocol_component.st]
           ELSE IF protocol_component_matches_special_scheme(protocol_component)
             THEN [p EXCEPT !.should_treat_as_standard_url = TRUE]
           ELSE p))

next_is_authority_slashes_panics(p) ==
  \/ get_safe_token_panics(p, p.token_index + 1)
  \/ /\ is_non_special_pattern_char(p, p.token_index + 1, "/")
     /\ get_safe_token_panics(p, p.token_index + 2)

next_is_single_slash(p) == is_non_special_pattern_char(p, p.token_index + 1, "/")

next_is_authority_slashes(p) ==
  /\ is_non_special_pattern_char(p, p.token_index + 1, "/")
  /\ is_non_special_pattern_char(p, p.token_index + 2, "/")

\* The match on parser.state in the loop of parse_constructor_string.
constructor_state_step(p) ==
  LET panic == [p EXCEPT !.st = "panic"]
      \* the arms shared by Hostname, Port and Pathname
      search_or_hash ==
        IF is_search_prefix_panics(p) THEN panic
        ELSE IF is_search_prefix(p) THEN change_state(p, "Search", 1)
        ELSE IF is_hash_prefix(p) THEN change_state(p, "Hash", 1)
        ELSE p
      path_search_or_hash ==
        IF is_pathname_start(p) THEN change_state(p, "Pathname", 0) ELSE search_or_hash
  IN
  CASE p.state = "Init" ->
         IF is_protocol_suffix(p)
           THEN rewind_and_set_state(
                  [p EXCEPT !.result.username = Some(<<>>), !.result.password = Some(<<>>),
                            !.result.hostname = Some(<<>>), !.result.port = Some(<<>>),
                            !.result.pathname = Some(<<>>), !.result.search = Some(<<>>),
                            !.result.hash = Some(<<>>)],
                  "Protocol")
         ELSE p
    [] p.state = "Protocol" ->
         IF is_protocol_suffix(p)
           THEN Bind(compute_should_treat_as_standard_url(p), LAMBDA c :
                  IF c.st # "run" THEN c
                  ELSE Bind(IF c.should_treat_as_standard_url
                                      THEN [c EXCEPT !.result.pathname = Some(<<"/">>)]
                                    ELSE c, LAMBDA d :
                         IF next_is_authority_slashes_panics(d) THEN panic
                         ELSE IF next_is_authority_slashes(d)
                           THEN change_state(d, "Authority", 3)
                         ELSE IF d.should_treat_as_standard_url
                           THEN change_state(d, "Authority", 1)
                         ELSE change_state(d, "Pathname", 1)))
         ELSE p
    [] p.state = "Authority" ->
         IF is_identity_terminator(p) THEN rewind_and_set_state(p, "Username")
         ELSE IF is_pathname_start(p) THEN rewind_and_set_state(p, "Hostname")
         ELSE IF is_search_prefix_panics(p) THEN panic
         ELSE IF is_search_prefix(p) \/ is_hash_prefix(p)
           THEN rewind_and_set_state(p, "Hostname")
         ELSE p
    [] p.state = "Username" ->
         IF is_password_prefix(p) THEN change_state(p, "Password", 1)
         ELSE IF is_identity_terminator(p) THEN change_state(p, "Hostname", 1)
         ELSE p
    [] p.state = "Password" ->
         IF is_identity_terminator(p) THEN change_state(p, "Hostname", 1) ELSE p
    [] p.state = "Hostname" ->
         IF is_port_prefix(p) THEN change_state(p, "Port", 1) ELSE path_search_or_hash
    [] p.state = "Port" -> path_search_or_hash
    [] p.state = "Pathname" -> search_or_hash
    [] p.state = "Search" ->
         IF is_hash_prefix(p) THEN change_state(p, "Hash", 1) ELSE p
    [] p.state = "Hash" -> p
    [] p.state = "Done" -> panic

\* One iteration of the loop of parse_constructor_string.
constructor_step(p0) ==
  LET p == [p0 EXCEPT !.token_increment = 1]
      advance(q) ==
        IF q.st = "run" THEN [q EXCEPT !.token_index = q.token_index + q.token_increment]
        ELSE q
      r == rewind(p)
      to_search == change_state(r, "Search", 1)
      to_pathname == change_state(r, "Pathname", 0)
      to_done == change_state(p, "Done", 0)
  IN
  IF p.token_list[p.token_index + 1].kind = "End"
    THEN IF p.state = "Init"
           THEN IF is_hash_prefix(r) THEN advance(change_state(r, "Hash", 1))
                ELSE IF is_search_prefix_panics(r) THEN [p EXCEPT !.st = "panic"]
                ELSE IF is_search_prefix(r)
                  THEN advance([to_search EXCEPT !.result.hash = Some(<<>>)])
                ELSE advance([to_pathname EXCEPT !.result.search = Some(<<>>),
                                                 !.result.hash = Some(<<>>)])
         ELSE IF p.state = "Authority" THEN advance(rewind_and_set_state(p, "Hostname"))
         ELSE IF to_done.st = "run" THEN [to_done EXCEPT !.st = "done"] ELSE to_done
  ELSE IF is_group_open(p) THEN advance([p EXCEPT !.group_depth = p.group_depth + 1])
  ELSE IF p.group_depth > 0 /\ ~is_group_close(p) THEN advance(p)
  ELSE advance(constructor_state_step(
                 IF p.group_depth > 0 THEN [p EXCEPT !.group_depth = p.group_depth - 1]
                 ELSE p))

RECURSIVE constructor_loop(_)
constructor_loop(p) ==
  IF p.st # "run" \/ ~(p.token_index < Len(p.token_list)) THEN p
  ELSE constructor_loop(constructor_step(p))

\* What parse_constructor_string returns once the loop is over.
constructor_result(p) ==
  IF p.st = "panic" THEN Panic
  ELSE IF p.st = "err" THEN Err("Parse")
  ELSE Ok(p.result)

\* The parser as parse_constructor_string sets it up from the lenient tokens.
constructor_start(input) ==
  Bind(tokenize(input, "Lenient"), LAMBDA tokens :
    IF tokens.st = "ok" THEN ConstructorStringParser(input, tokens.token_list)
    ELSE [ConstructorStringParser(input, <<>>) EXCEPT !.st = tokens.st])

\* constructor_parser::parse_constructor_string: Ok(init), Err or Panic.
constructor_parse_constructor_string(input) ==
  constructor_result(constructor_loop(constructor_start(input)))

\* UrlPatternInit::parse_constructor_string (lib.rs), from the parser's result on.
parse_constructor_string_of(init, base_url) ==
  IF init.st # "ok" THEN init
  ELSE IF ~base_url.some /\ ~init.v.protocol.some THEN Err("BaseUrlRequired")
  ELSE Ok([init.v EXCEPT !.base_url = base_url])

parse_constructor_string(pattern_string, base_url) ==
  parse_constructor_string_of(constructor_parse_constructor_string(pattern_string), base_url)

\* ------------------------------------------------------------------------
\* Init processing (canonicalize_and_process.rs, lib.rs)
\* ------------------------------------------------------------------------

process_protocol_init(value, kind) ==
  LET stripped_value == IF ends_with(value, <<":">>) THEN SubSeq(value, 1, Len(value) - 1)
                        ELSE value
  IN IF kind = "Pattern" THEN Ok(stripped_value) ELSE canonicalize_protocol(stripped_value)

process_username_init(value, kind) ==
  IF kind = "Pattern" THEN Ok(value) ELSE canonicalize_username(value)

process_password_init(value, kind) ==
  IF kind = "Pattern" THEN Ok(value) ELSE canonicalize_password(value)

process_hostname_init(value, kind) ==
  IF kind = "Pattern" THEN Ok(value) ELSE canonicalize_hostname(value)

process_port_init(port_value, protocol_value, kind) ==
  IF kind = "Pattern" THEN Ok(port_value) ELSE canonicalize_port(port_value, protocol_value)

is_special_scheme(scheme) ==
  scheme \in { <<"h", "t", "t", "p">>, <<"h", "t", "t", "p", "s">>, <<"w", "s">>,
               <<"w", "s", "s">>, <<"f", "t", "p">>, <<"f", "i", "l", "e">> }

\* A variant of special_scheme_default_port that gives ws the port of wss.
special_scheme_default_port_ws_443(scheme) ==
  CASE scheme = <<"h", "t", "t", "p">> -> Some(<<"8", "0">>)
    [] scheme = <<"h", "t", "t", "p", "s">> -> Some(<<"4", "4", "3">>)
    [] scheme = <<"w", "s">> -> Some(<<"4", "4", "3">>)
    [] scheme = <<"w", "s", "s">> -> Some(<<"4", "4", "3">>)
    [] scheme = <<"f", "t", "p">> -> Some(<<"2", "1">>)
    [] OTHER -> None

special_scheme_default_port(scheme) ==
  CASE scheme = <<"h", "t", "t", "p">> -> Some(<<"8", "0">>)
    [] scheme = <<"h", "t", "t", "p", "s">> -> Some(<<"4", "4", "3">>)
    [] scheme = <<"w", "s">> -> Some(<<"8", "0">>)
    [] scheme = <<"w", "s", "s">> -> Some(<<"4", "4", "3">>)
    [] scheme = <<"f", "t", "p">> -> Some(<<"2", "1">>)
    [] scheme = <<"f", "i", "l", "e">> -> None
    [] OTHER -> None

process_pathname_init(pathname_value, protocol_value, kind) ==
  IF kind = "Pattern" THEN Ok(pathname_value)
  ELSE IF protocol_value.some
          /\ (protocol_value.v = <<>> \/ is_special_scheme(protocol_value.v))
    THEN canonicalize_pathname(pathname_value)
  ELSE canonicalize_cannot_be_a_base_url_pathname(pathname_value)

process_search_init(value, kind) ==
  LET stripped_value == IF starts_with(value, <<"?">>) THEN Tail(value) ELSE value
  IN IF kind = "Pattern" THEN Ok(stripped_value) ELSE canonicalize_search(stripped_value)

process_hash_init(value, kind) ==
  LET stripped_value == IF starts_with(value, <<"#">>) THEN Tail(value) ELSE value
  IN IF kind = "Pattern" THEN Ok(stripped_value) ELSE canonicalize_hash(stripped_value)

\* A variant of is_absolute_pathname that knows the leading slash only.
is_absolute_pathname_slash_only(input, kind) == starts_with(input, <<"/">>)

is_absolute_pathname(input, kind) ==
  IF input = <<>> THEN FALSE
  ELSE IF starts_with(input, <<"/">>) THEN TRUE
  ELSE IF kind = "Url" THEN FALSE
  ELSE IF str_len(input) < 2 THEN FALSE
  ELSE starts_with(input, <<"\\", "/">>) \/ starts_with(input, <<"{", "/">>)

\* A parsed URL, as the url crate's accessors present it: scheme(), username(),
\* password().unwrap_or_default(), host_str().unwrap_or_default(), quirks::port,
\* quirks::pathname, query().unwrap_or(""), fragment().unwrap_or("").
Url(scheme, host, port, pathname) ==
  [scheme |-> scheme, username |-> <<>>, password |-> <<>>, host_str |-> host,
   port |-> port, pathname |-> pathname, query |-> <<>>, fragment |-> <<>>,
   cannot_be_a_base |-> FALSE]

\* The URL strings of the model and what Url::parse makes of them; a default
\* port is dropped, so two strings parse to one URL.
UrlTable ==
  << [s |-> <<"h", "t", "t", "p", "s", ":", "/", "/", "a", "/", "b">>,
      url |-> Url(<<"h", "t", "t", "p", "s">>, <<"a">>, <<>>, <<"/", "b">>)],
     [s |-> <<"h", "t", "t", "p", "s", ":", "/", "/", "a", ":", "4", "4", "3", "/", "b">>,
      url |-> Url(<<"h", "t", "t", "p", "s">>, <<"a">>, <<>>, <<"/", "b">>)],
     [s |-> <<"h", "t", "t", "p", ":", "/", "/", "a", "/", "a">>,
      url |-> Url(<<"h", "t", "t", "p">>, <<"a">>, <<>>, <<"/", "a">>)],
     [s |-> <<"w", "s", ":", "/", "/", "a", ":", "8", "0", "8", "0", "/", "a", "#", "a">>,
      url |-> [Url(<<"w", "s">>, <<"a">>, <<"8", "0", "8", "0">>, <<"/", "a">>)
                 EXCEPT !.fragment = <<"a">>]],
     [s |-> <<"d", "a", "t", "a", ":", "a">>,
      url |-> [Url(<<"d", "a", "t", "a">>, <<>>, <<>>, <<"a">>)
                 EXCEPT !.cannot_be_a_base = TRUE]] >>

\* Url::parse: an absolute URL string of the table, anything else is an error.
Url_parse(s) ==
  IF \E k \in 1..Len(UrlTable) : UrlTable[k].s = s
    THEN Ok(UrlTable[CHOOSE k \in 1..Len(UrlTable) : UrlTable[k].s = s].url)
  ELSE Err("Url")

\* Url::options().base_url(base).parse(s): an absolute string ignores the base; a
\* path-absolute string replaces the path, query and fragment of a base that
\* can be a base.
Url_parse_with_base(s, base) ==
  IF Url_parse(s).st = "ok" THEN Url_parse(s)
  ELSE IF base.some /\ ~base.v.cannot_be_a_base /\ starts_with(s, <<"/">>)
          /\ \A i \in 1..Len(s) : s[i] \in Lower \cup Digit \cup {"/"}
    THEN Ok([base.v EXCEPT !.pathname = s, !.query = <<>>, !.fragment = <<>>])
  ELSE Err("Url")

\* Url::to_string: the serialization, the first string of the table that parses
\* to the URL.
Url_to_string(url) ==
  UrlTable[CHOOSE k \in 1..Len(UrlTable) :
             /\ UrlTable[k].url = url
             /\ \A j \in 1..(k - 1) : UrlTable[j].url # url].s

\* str::rfind('/') and the slice up to and including it.
up_to_last_slash(s) ==
  IF contains_char(s, "/")
    THEN Some(SubSeq(s, 1, CHOOSE i \in 1..Len(s) :
                             s[i] = "/" /\ \A j \in (i + 1)..Len(s) : s[j] # "/"))
  ELSE None

\* A variant of seed_from_base_url that leaves the result as it was.
seed_from_base_url_keep(result, base_url) == result

\* The base URL block of UrlPatternInit::process: with a base URL, every field of
\* the result is overwritten with the base URL's component.
seed_from_base_url(result, base_url) ==
  IF base_url.some
    THEN [result EXCEPT !.protocol = Some(base_url.v.scheme),
                        !.username = Some(base_url.v.username),
                        !.password = Some(base_url.v.password),
                        !.hostname = Some(base_url.v.host_str),
                        !.port = Some(base_url.v.port),
                        !.pathname = Some(base_url.v.pathname),
                        !.search = Some(base_url.v.query),
                        !.hash = Some(base_url.v.fragment)]
  ELSE result

\* UrlPatternInit::process: Ok(init), or the first error of a process_*_init step.
UrlPatternInit_process(self, kind, protocol, username, password, hostname, port, pathname, search, hash) ==
  LET seeded == [protocol |-> protocol, username |-> username, password |-> password,
                 hostname |-> hostname, port |-> port, pathname |-> pathname,
                 search |-> search, hash |-> hash, base_url |-> None]
      based == seed_from_base_url(seeded, self.base_url)
      joined_pathname ==
        IF self.base_url.some /\ ~self.base_url.v.cannot_be_a_base
           /\ ~is_absolute_pathname(self.pathname.v, kind)
           /\ up_to_last_slash(self.base_url.v.pathname).some
          THEN up_to_last_slash(self.base_url.v.pathname).v \o self.pathname.v
        ELSE self.pathname.v
      \* result.<field> = Some(<processed>?)
      put(r, field, x) == IF x.st # "ok" THEN x ELSE Ok([r.v EXCEPT ![field] = Some(x.v)])
      set_protocol(r) ==
        IF r.st # "ok" \/ ~self.protocol.some THEN r
        ELSE put(r, "protocol", process_protocol_init(self.protocol.v, kind))
      set_username(r) ==
        IF r.st # "ok" \/ ~self.username.some THEN r
        ELSE put(r, "username", process_username_init(self.username.v, kind))
      set_password(r) ==
        IF r.st # "ok" \/ ~self.password.some THEN r
        ELSE put(r, "password", process_password_init(self.password.v, kind))
      set_hostname(r) ==
        IF r.st # "ok" \/ ~self.hostname.some THEN r
        ELSE put(r, "hostname", process_hostname_init(self.hostname.v, kind))
      set_port(r) ==
        IF r.st # "ok" \/ ~self.port.some THEN r
        ELSE put(r, "port", process_port_init(self.port.v, r.v.protocol, kind))
      set_pathname(r) ==
        IF r.st # "ok" \/ ~self.pathname.some THEN r
        ELSE put(r, "pathname", process_pathname_init(joined_pathname, r.v.protocol, kind))
      set_search(r) ==
        IF r.st # "ok" \/ ~self.search.some THEN r
        ELSE put(r, "search", process_search_init(self.search.v, kind))
      set_hash(r) ==
        IF r.st # "ok" \/ ~self.hash.some THEN r
        ELSE put(r, "hash", process_hash_init(self.hash.v, kind))
  IN set_hash(set_search(set_pathname(set_port(set_hostname(set_password(
       set_username(set_protocol(Ok(based)))))))))

\* ------------------------------------------------------------------------
\* UrlPattern (lib.rs)
\* ------------------------------------------------------------------------

hostname_pattern_is_ipv6_address(input) ==
  IF str_len(input) < 2 THEN FALSE
  ELSE starts_with(input, <<"[">>) \/ starts_with(input, <<"{", "[">>)
       \/ starts_with(input, <<"\\", "[">>)

\* The components of a UrlPattern.
ComponentNames ==
  {"protocol", "username", "password", "hostname", "port", "pathname", "search", "hash"}

\* The order in which UrlPattern::parse compiles the components after the protocol.
CompileOrder == <<"hostname", "pathname", "username", "password", "port", "search", "hash">>

\* UrlPattern::parse: Ok(the eight components), Err or Panic.
UrlPattern_parse(init) ==
  Bind(UrlPatternInit_process(init, "Pattern", None, None, None, None, None,
                                      None, None, None), LAMBDA r :
    IF r.st # "ok" THEN r
    ELSE Bind(IF r.v.protocol.some /\ is_special_scheme(r.v.protocol.v)
                     /\ special_scheme_default_port(r.v.protocol.v) = r.v.port
                    THEN [r.v EXCEPT !.port = Some(<<>>)]
                  ELSE r.v, LAMBDA processed_init :
      Bind(Component_compile(processed_init.protocol, "protocol",
                                            options_default), LAMBDA protocol :
        IF protocol.st = "panic" THEN Panic
        ELSE IF protocol.st # "ok" THEN Err("Parse")
        ELSE Bind(LET hostname_is_ipv6 ==
                            /\ processed_init.hostname.some
                            /\ hostname_pattern_is_ipv6_address(processed_init.hostname.v)
                          special == protocol_component_matches_special_scheme(protocol)
                      IN [f \in ComponentNames \ {"protocol"} |->
                            Component_compile(
                              processed_init[f],
                              CASE f = "hostname" ->
                                     IF hostname_is_ipv6 THEN "ipv6_hostname" ELSE "hostname"
                                [] f = "pathname" ->
                                     IF special THEN "pathname"
                                     ELSE "cannot_be_a_base_url_pathname"
                                [] OTHER -> f,
                              CASE f = "hostname" -> options_hostname
                                [] f = "pathname" ->
                                     IF special THEN options_pathname ELSE options_default
                                [] OTHER -> options_default)], LAMBDA rest :
          IF \E k \in 1..Len(CompileOrder) : rest[CompileOrder[k]].st # "ok"
            THEN LET k == CHOOSE k \in 1..Len(CompileOrder) :
                            /\ rest[CompileOrder[k]].st # "ok"
                            /\ \A j \in 1..(k - 1) : rest[CompileOrder[j]].st = "ok"
                 IN IF rest[CompileOrder[k]].st = "panic" THEN Panic ELSE Err("Parse")
          ELSE Ok([f \in ComponentNames |->
                     IF f = "protocol" THEN protocol ELSE rest[f]])))))

\* A variant of parse_match_input that hands a failed init processing on as an
\* error.
parse_match_input_surfacing(input) ==
  IF input.kind = "Init"
    THEN Bind(UrlPatternInit_process(input.v, "Url", Some(<<>>), Some(<<>>),
                                     Some(<<>>), Some(<<>>), Some(<<>>),
                                     Some(<<>>), Some(<<>>), Some(<<>>)), LAMBDA r :
           IF r.st # "ok" THEN r
           ELSE Ok(Some([f \in ComponentNames |-> r.v[f].v])))
  ELSE Ok(Some([protocol |-> input.v.scheme, username |-> input.v.username,
                password |-> input.v.password, hostname |-> input.v.host_str,
                port |-> input.v.port, pathname |-> input.v.pathname,
                search |-> input.v.query, hash |-> input.v.fragment]))

\* The eight strings a match input is decomposed into: Ok(None) when processing an
\* init fails, Ok(Some(strings)) otherwise (lib.rs 392-429, quirks.rs 207-249).
parse_match_input(input) ==
  IF input.kind = "Init"
    THEN Bind(UrlPatternInit_process(input.v, "Url", Some(<<>>), Some(<<>>),
                                             Some(<<>>), Some(<<>>), Some(<<>>),
                                             Some(<<>>), Some(<<>>), Some(<<>>)), LAMBDA r :
           IF r.st = "panic" THEN Panic
           ELSE IF r.st # "ok" THEN Ok(None)
           ELSE Ok(Some([f \in ComponentNames |-> r.v[f].v])))
  ELSE Ok(Some([protocol |-> input.v.scheme, username |-> input.v.username,
                password |-> input.v.password, hostname |-> input.v.host_str,
                port |-> input.v.port, pathname |-> input.v.pathname,
                search |-> input.v.query, hash |-> input.v.fragment]))

\* A variant of all_matched that does not look at the hash.
all_matched_but_hash(exec_results) ==
  \A f \in ComponentNames \ {"hash"} : exec_results[f].some

\* The tuple pattern of UrlPattern::matches: every exec result is Some.
all_matched(exec_results) == \A f \in ComponentNames : exec_results[f].some

\* UrlPattern::matches: Ok(None), Ok(Some(result)), or Panic.
UrlPattern_matches(self, input) ==
  Bind(parse_match_input(input), LAMBDA r :
    IF r.st # "ok" THEN r
    ELSE IF ~r.v.some THEN Ok(None)
    ELSE IF \E f \in ComponentNames : self[f].regexp.st # "ok" THEN Panic
    ELSE Bind([f \in ComponentNames |->
                                   regexp_matches(self[f].regexp.v, r.v.v[f])], LAMBDA exec_results :
           IF all_matched(exec_results)
             THEN Ok(Some([f \in ComponentNames |->
                             create_match_result(self[f], r.v.v[f], exec_results[f].v)]))
           ELSE Ok(None)))

\* A variant of UrlPattern::test that reports a match whenever matching does not fail.
UrlPattern_test_any(self, input) ==
  Bind(UrlPattern_matches(self, input), LAMBDA res :
    IF res.st = "ok" THEN Ok(TRUE) ELSE res)

\* UrlPattern::test
UrlPattern_test(self, input) ==
  Bind(UrlPattern_matches(self, input), LAMBDA res :
    IF res.st = "ok" THEN Ok(res.v.some) ELSE res)

\* UrlPattern::exec
UrlPattern_exec(self, input) == UrlPattern_matches(self, input)

\* ------------------------------------------------------------------------
\* Browser integration (quirks.rs)
\* ------------------------------------------------------------------------

StringOrInit_String(s) == [kind |-> "String", v |-> s]
StringOrInit_Init(init) == [kind |-> "Init", v |-> init]

\* base_url.map(Url::parse).transpose(): Ok(None), Ok(Some(url)) or Err.
parse_optional_url(base_url) ==
  IF ~base_url.some THEN Ok(None)
  ELSE IF Url_parse(base_url.v).st = "ok" THEN Ok(Some(Url_parse(base_url.v).v))
  ELSE Err("Url")

process_construct_pattern_input(input, base_url) ==
  IF input.kind = "String"
    THEN Bind(parse_optional_url(base_url), LAMBDA b :
           IF b.st # "ok" THEN b ELSE parse_constructor_string(input.v, b.v))
  ELSE IF base_url.some THEN Err("BaseUrlWithInit")
  ELSE Bind(parse_optional_url(input.v.base_url), LAMBDA b :
         IF b.st # "ok" THEN b ELSE Ok([input.v EXCEPT !.base_url = b.v]))

\* The String arm of process_match_input.
process_match_string(input, base_url_str) ==
  Bind(parse_optional_url(base_url_str), LAMBDA b :
    IF b.st # "ok" THEN Ok(None)
    ELSE Bind(Url_parse_with_base(input.v, b.v), LAMBDA url :
           IF url.st # "ok" THEN Ok(None)
           ELSE Ok(Some([input |-> [kind |-> "Url", v |-> url.v],
                         inputs |-> <<input, IF b.v.some THEN Some(Url_to_string(b.v.v))
                                             ELSE None>>]))))

\* The Init arm of process_match_input once no separate base URL was given.
process_match_init(input) ==
  Bind(parse_optional_url(input.v.base_url), LAMBDA b :
    IF b.st # "ok" THEN Ok(None)
    ELSE Ok(Some([input |-> [kind |-> "Init", v |-> [input.v EXCEPT !.base_url = b.v]],
                  inputs |-> <<input, None>>])))

\* A variant of process_match_input that takes an init given with a base URL for
\* an input that cannot match.
process_match_input_no_match(input, base_url_str) ==
  IF input.kind = "String" THEN process_match_string(input, base_url_str)
  ELSE IF base_url_str.some THEN Ok(None)
  ELSE process_match_init(input)

process_match_input(input, base_url_str) ==
  IF input.kind = "String" THEN process_match_string(input, base_url_str)
  ELSE IF base_url_str.some THEN Err("BaseUrlWithInit")
  ELSE process_match_init(input)

\* ------------------------------------------------------------------------
\* State
\* ------------------------------------------------------------------------

VARIABLES
  pc,           \* position of the driver
  pattern,      \* the pattern string supplied
  pieces,       \* how many pieces the pattern string was written in
  opt,          \* which Options preset the component is compiled with
  comp,         \* Component::compile's result
  gen,          \* generate_regular_expression_and_name_list's result
  reparsed,     \* parse_pattern_string of the generated pattern string
  input,        \* the string matched against the component
  mres,         \* Matcher::matches' result
  exec_result,  \* the regexp's captures for the input
  result,       \* create_match_result's result
  parser,       \* the ConstructorStringParser
  visited,      \* the states the constructor string parser has been in
  tick,         \* flips at every iteration of the parser's loop
  base_url,     \* the base URL given with a constructor string
  init_res,     \* UrlPatternInit::parse_constructor_string's result
  cinput,       \* the StringOrInit a pattern is constructed from
  cbase,        \* the base URL string given with it
  cres,         \* process_construct_pattern_input's result
  urlpattern,   \* UrlPattern::parse's result
  minput,       \* the StringOrInit matched against the pattern
  mbase,        \* the base URL string given with it
  mproc,        \* process_match_input's result
  test_res,     \* UrlPattern::test's result
  exec_res,     \* UrlPattern::exec's result
  strict_res,   \* tokenize's result under the Strict policy
  lenient_res   \* tokenize's result under the Lenient policy

compVars == <<opt, comp, gen, reparsed, input, mres, exec_result, result>>
ctorVars == <<parser, visited, tick, base_url, init_res>>
urlVars == <<cinput, cbase, cres, urlpattern, minput, mbase, mproc, test_res, exec_res>>
tokVars == <<strict_res, lenient_res>>

vars == <<pc, pattern, pieces, compVars, ctorVars, urlVars, tokVars>>

Idle == [st |-> "idle"]

compIdle ==
  /\ opt = "default" /\ comp = Idle /\ gen = Idle /\ reparsed = Idle
  /\ input = <<>> /\ mres = Idle /\ exec_result = Idle /\ result = Idle

ctorIdle == parser = Idle /\ visited = {} /\ tick = 0 /\ base_url = None /\ init_res = Idle

urlIdle ==
  /\ cinput = Idle /\ cbase = None /\ cres = Idle /\ urlpattern = Idle
  /\ minput = Idle /\ mbase = None /\ mproc = Idle /\ test_res = Idle /\ exec_res = Idle

tokIdle == strict_res = Idle /\ lenient_res = Idle

\* ------------------------------------------------------------------------
\* Compiling and matching one component
\* ------------------------------------------------------------------------

MaxPieces == 3
MaxInputLen == 3

PatternPieces ==
  { <<"a">>, <<"/">>, <<".">>, <<":", "a">>, <<":", "b">>, <<"*">>, <<"?">>, <<"+">>,
    <<"(", "a", ")">>, <<"{">>, <<"}">>, <<"{", "a", "}">>,
    <<"{", "a", ":", "a", "/", "}">>, <<"\\">> }

InputChars == {"a", "/"}

OptionKinds == {"default", "hostname", "pathname"}

options_of(kind) ==
  CASE kind = "default" -> options_default
    [] kind = "hostname" -> options_hostname
    [] kind = "pathname" -> options_pathname

callback_of(kind) ==
  CASE kind = "default" -> "search"
    [] kind = "hostname" -> "hostname"
    [] kind = "pathname" -> "pathname"

InitComponent ==
  /\ pc = "build"
  /\ pattern = <<>> /\ pieces = 0
  /\ opt \in OptionKinds
  /\ comp = Idle /\ gen = Idle /\ reparsed = Idle
  /\ input = <<>> /\ mres = Idle /\ exec_result = Idle /\ result = Idle
  /\ ctorIdle /\ urlIdle /\ tokIdle

\* The caller writes one more piece of the pattern string.
Extend ==
  /\ pc = "build"
  /\ pieces < MaxPieces
  /\ \E piece \in PatternPieces : pattern' = pattern \o piece
  /\ pieces' = pieces + 1
  /\ UNCHANGED <<tokVars, pc, compVars, ctorVars, urlVars>>

\* Component::compile(Some(pattern), callback, options).
Compile ==
  /\ pc = "build"
  /\ comp' = Component_compile(Some(pattern), callback_of(opt), options_of(opt))
  /\ gen' = generate_regular_expression_and_name_list(comp'.part_list, options_of(opt))
  /\ pc' = "compiled"
  /\ UNCHANGED <<tokVars, pattern, pieces, opt, reparsed, input, mres, exec_result, result,
                 ctorVars, urlVars>>

\* parse_pattern_string applied to the component's generated pattern string.
Reparse ==
  /\ pc = "compiled" /\ comp.st = "ok"
  /\ reparsed' = parse_pattern_string(comp.pattern_string, options_of(opt), callback_of(opt))
  /\ pc' = "reparsed"
  /\ UNCHANGED <<tokVars, pattern, pieces, opt, comp, gen, input, mres, exec_result, result,
                 ctorVars, urlVars>>

\* The component is matched against one input, by its matcher and by its
\* regular expression; a match is turned into a component result.
Match ==
  /\ pc = "compiled" /\ comp.st = "ok" /\ comp.regexp.st = "ok"
  /\ \E n \in 0..MaxInputLen : \E s \in [1..n -> InputChars] :
       /\ input' = s
       /\ mres' = Matcher_matches(comp.matcher, s)
       /\ exec_result' = regexp_matches(comp.regexp.v, s)
       /\ result' = IF exec_result'.some
                      THEN create_match_result(comp, s, exec_result'.v)
                    ELSE Idle
  /\ pc' = "matched"
  /\ UNCHANGED <<tokVars, pattern, pieces, opt, comp, gen, reparsed, ctorVars, urlVars>>

NextComponent == Extend \/ Compile \/ Reparse \/ Match

SpecComponent == InitComponent /\ [][NextComponent]_vars

\* ------------------------------------------------------------------------
\* Parsing a constructor string, one loop iteration at a time
\* ------------------------------------------------------------------------

MaxStringPieces == 4

StringPieces ==
  { <<"a">>, <<":">>, <<"/">>, <<"?">>, <<"#">>, <<"@">>, <<"{">>, <<"}">>, <<"*">>,
    <<"\\">>, <<"h", "t", "t", "p">> }

\* The base URL https://a/b.
BaseUrl == Url(<<"h", "t", "t", "p", "s">>, <<"a">>, <<>>, <<"/", "b">>)

InitConstructor ==
  /\ pc = "build"
  /\ pattern = <<>> /\ pieces = 0
  /\ compIdle /\ ctorIdle /\ urlIdle /\ tokIdle

\* The caller writes one more piece of the constructor string.
ExtendString ==
  /\ pc = "build"
  /\ pieces < MaxStringPieces
  /\ \E piece \in StringPieces : pattern' = pattern \o piece
  /\ pieces' = pieces + 1
  /\ UNCHANGED <<tokVars, pc, compVars, ctorVars, urlVars>>

\* parse_constructor_string up to its loop: the input is tokenized leniently.
StartParse ==
  /\ pc = "build"
  /\ parser' = constructor_start(pattern)
  /\ visited' = {"Init"}
  /\ pc' = "parsing"
  /\ UNCHANGED <<tokVars, pattern, pieces, compVars, tick, base_url, init_res, urlVars>>

\* One iteration of the loop.
StepParse ==
  /\ pc = "parsing" /\ parser.st = "run"
  /\ parser.token_index < Len(parser.token_list)
  /\ parser' = constructor_step(parser)
  /\ visited' = visited \cup {parser'.state}
  /\ tick' = 1 - tick
  /\ UNCHANGED <<tokVars, pc, pattern, pieces, compVars, base_url, init_res, urlVars>>

\* The loop is over: UrlPatternInit::parse_constructor_string returns, having
\* been given a base URL or none.
FinishParse ==
  /\ pc = "parsing"
  /\ parser.st # "run" \/ ~(parser.token_index < Len(parser.token_list))
  /\ \E b \in {None, Some(BaseUrl)} :
       /\ base_url' = b
       /\ init_res' = parse_constructor_string_of(constructor_result(parser), b)
  /\ pc' = "finished"
  /\ UNCHANGED <<tokVars, pattern, pieces, compVars, parser, visited, tick, urlVars>>

NextConstructor == ExtendString \/ StartParse \/ StepParse \/ FinishParse

SpecConstructor == InitConstructor /\ [][NextConstructor]_vars

\* The constructor strings of the specification with fairness are shorter.
MaxFairPieces == 3

ExtendStringFair == pieces < MaxFairPieces /\ ExtendString

NextConstructorFair == ExtendStringFair \/ StartParse \/ StepParse

\* The condition of the while loop holds and an iteration is taken.
Iterate ==
  /\ pc = "parsing" /\ parser.st = "run"
  /\ parser.token_index < Len(parser.token_list)
  /\ tick' = 1 - tick

\* The loop runs on by itself: an iteration that can be taken is taken.
SpecConstructorFair ==
  InitConstructor /\ [][NextConstructorFair]_vars /\ WF_tick(Iterate)

\* ------------------------------------------------------------------------
\* Constructing a UrlPattern and matching inputs against it
\* ------------------------------------------------------------------------

ProtocolValues ==
  { None, Some(<<"h", "t", "t", "p">>), Some(<<"h", "t", "t", "p", "s", ":">>),
    Some(<<"w", "s">>), Some(<<"w", "s", "s">>), Some(<<"f", "t", "p">>),
    Some(<<"f", "i", "l", "e">>), Some(<<"d", "a", "t", "a">>) }

PortValues ==
  { None, Some(<<"8", "0">>), Some(<<"4", "4", "3">>), Some(<<"2", "1">>),
    Some(<<"8", "0", "8", "0">>) }

HostnameValues == { None, Some(<<"a">>) }

PathnameValues ==
  { None, Some(<<"/", ":", "a">>), Some(<<"b">>), Some(<<"{", "/", "a", "}">>),
    Some(<<"\\", "/", "a">>) }

HashValues == { None, Some(<<"#", "a">>) }

\* Base URL strings: none, https://a/b, data:a (which cannot be a base), and a
\* string Url::parse rejects.
BaseUrlStrings == { None, Some(UrlTable[1].s), Some(UrlTable[5].s), Some(<<"x">>) }

ConstructorStrings ==
  { <<"/", ":", "a">>, <<"*">>, <<"h", "t", "t", "p", "s", ":", "/", "/", "a", "/", "*">> }

\* The quirks UrlPatternInit with the given fields.
QuirksInit(protocol, hostname, port, pathname, hash, b) ==
  [UrlPatternInit_default EXCEPT !.protocol = protocol, !.hostname = hostname,
                                 !.port = port, !.pathname = pathname, !.hash = hash,
                                 !.base_url = b]

MatchStrings ==
  { UrlTable[k].s : k \in 1..Len(UrlTable) } \cup { <<"/", "a">>, <<"x">> }

MatchInits ==
  { QuirksInit(Some(<<"h", "t", "t", "p", "s">>), Some(<<"a">>), None, Some(<<"/", "b">>),
               None, None),
    QuirksInit(None, None, None, Some(<<"/", "a">>), None, Some(UrlTable[1].s)),
    QuirksInit(None, None, None, Some(<<"a">>), None, Some(UrlTable[1].s)),
    QuirksInit(None, None, None, Some(<<"a">>), None, Some(UrlTable[5].s)),
    QuirksInit(Some(<<"w", "s">>), Some(<<"a">>), Some(<<"8", "0">>), Some(<<"/", "a">>),
               Some(<<"a">>), None),
    QuirksInit(None, None, Some(<<"x">>), None, None, None),
    QuirksInit(None, None, None, None, None, Some(<<"x">>)) }

InitUrlPattern ==
  /\ pc = "build"
  /\ pattern = <<>> /\ pieces = 0
  /\ compIdle /\ ctorIdle /\ urlIdle /\ tokIdle

\* The caller writes a structured init.
ChooseInit ==
  /\ pc = "build"
  /\ \E protocol \in ProtocolValues, hostname \in HostnameValues, port \in PortValues,
        pathname \in PathnameValues, hash \in HashValues, b \in BaseUrlStrings :
       cinput' = StringOrInit_Init(QuirksInit(protocol, hostname, port, pathname, hash, b))
  /\ pc' = "input"
  /\ UNCHANGED <<tokVars, pattern, pieces, compVars, ctorVars, cbase, cres, urlpattern, minput,
                 mbase, mproc, test_res, exec_res>>

\* The caller writes a constructor string.
ChooseString ==
  /\ pc = "build"
  /\ \E s \in ConstructorStrings : cinput' = StringOrInit_String(s)
  /\ pc' = "input"
  /\ UNCHANGED <<tokVars, pattern, pieces, compVars, ctorVars, cbase, cres, urlpattern, minput,
                 mbase, mproc, test_res, exec_res>>

\* quirks::process_construct_pattern_input(input, base_url)
Construct ==
  /\ pc = "input"
  /\ \E b \in BaseUrlStrings :
       /\ cbase' = b
       /\ cres' = process_construct_pattern_input(cinput, b)
  /\ pc' = "constructed"
  /\ UNCHANGED <<tokVars, pattern, pieces, compVars, ctorVars, cinput, urlpattern, minput, mbase,
                 mproc, test_res, exec_res>>

\* UrlPattern::parse(init)
ParsePattern ==
  /\ pc = "constructed" /\ cres.st = "ok"
  /\ urlpattern' = UrlPattern_parse(cres.v)
  /\ pc' = "parsed"
  /\ UNCHANGED <<tokVars, pattern, pieces, compVars, ctorVars, cinput, cbase, cres, minput, mbase,
                 mproc, test_res, exec_res>>

\* quirks::process_match_input(input, base_url_str) for a string input
ProcessMatchString ==
  /\ pc = "parsed" /\ urlpattern.st = "ok"
  /\ \E s \in MatchStrings, b \in BaseUrlStrings :
       /\ minput' = StringOrInit_String(s)
       /\ mbase' = b
       /\ mproc' = process_match_input(StringOrInit_String(s), b)
  /\ pc' = "processed"
  /\ UNCHANGED <<tokVars, pattern, pieces, compVars, ctorVars, cinput, cbase, cres, urlpattern,
                 test_res, exec_res>>

\* quirks::process_match_input(input, base_url_str) for an init input
ProcessMatchInit ==
  /\ pc = "parsed" /\ urlpattern.st = "ok"
  /\ \E init \in MatchInits, b \in BaseUrlStrings :
       /\ minput' = StringOrInit_Init(init)
       /\ mbase' = b
       /\ mproc' = process_match_input(StringOrInit_Init(init), b)
  /\ pc' = "processed"
  /\ UNCHANGED <<tokVars, pattern, pieces, compVars, ctorVars, cinput, cbase, cres, urlpattern,
                 test_res, exec_res>>

\* UrlPattern::test(input)
Test ==
  /\ pc = "processed" /\ mproc.st = "ok" /\ mproc.v.some
  /\ test_res' = UrlPattern_test(urlpattern.v, mproc.v.v.input)
  /\ pc' = "tested"
  /\ UNCHANGED <<tokVars, pattern, pieces, compVars, ctorVars, cinput, cbase, cres, urlpattern,
                 minput, mbase, mproc, exec_res>>

\* UrlPattern::exec(input)
Exec ==
  /\ pc = "tested"
  /\ exec_res' = UrlPattern_exec(urlpattern.v, mproc.v.v.input)
  /\ pc' = "executed"
  /\ UNCHANGED <<tokVars, pattern, pieces, compVars, ctorVars, cinput, cbase, cres, urlpattern,
                 minput, mbase, mproc, test_res>>

NextUrlPattern ==
  \/ ChooseInit \/ ChooseString \/ Construct \/ ParsePattern
  \/ ProcessMatchString \/ ProcessMatchInit \/ Test \/ Exec

SpecUrlPattern == InitUrlPattern /\ [][NextUrlPattern]_vars

\* ------------------------------------------------------------------------
\* Tokenizing one input under both policies
\* ------------------------------------------------------------------------

MaxTokenizerInput == 4

TokenizerChars == {"a", ":", "(", ")", "?", "\\", "{", "*", "é"}

InitTokenizer ==
  /\ pc = "build"
  /\ pattern = <<>> /\ pieces = 0
  /\ compIdle /\ ctorIdle /\ urlIdle /\ tokIdle

\* The caller writes one more code point of the input.
ExtendInput ==
  /\ pc = "build"
  /\ pieces < MaxTokenizerInput
  /\ \E c \in TokenizerChars : pattern' = Append(pattern, c)
  /\ pieces' = pieces + 1
  /\ UNCHANGED <<pc, compVars, ctorVars, urlVars, tokVars>>

\* tokenize(input, TokenizePolicy::Strict), as the pattern parser calls it.
TokenizeStrict ==
  /\ pc \in {"build", "tokenizing"} /\ strict_res = Idle
  /\ strict_res' = tokenize(pattern, "Strict")
  /\ pc' = "tokenizing"
  /\ UNCHANGED <<pattern, pieces, compVars, ctorVars, urlVars, lenient_res>>

\* tokenize(input, TokenizePolicy::Lenient), as the constructor string parser
\* calls it.
TokenizeLenient ==
  /\ pc \in {"build", "tokenizing"} /\ lenient_res = Idle
  /\ lenient_res' = tokenize(pattern, "Lenient")
  /\ pc' = "tokenizing"
  /\ UNCHANGED <<pattern, pieces, compVars, ctorVars, urlVars, strict_res>>

NextTokenizer == ExtendInput \/ TokenizeStrict \/ TokenizeLenient

SpecTokenizer == InitTokenizer /\ [][NextTokenizer]_vars

\* ------------------------------------------------------------------------
\* Properties of the tokenizer
\* ------------------------------------------------------------------------

\* The kinds of the tokens of a tokenize result.
token_kinds(r) == {r.token_list[k].kind : k \in 1..Len(r.token_list)}

\* C12: tokenize with the Lenient policy always returns a token list, never a
\* tokenize error, and tokenize with the Strict policy fails with a tokenizer
\* error exactly when the Lenient token list of the same input holds an
\* InvalidChar token.
C12_LenientNeverFails ==
  /\ lenient_res # Idle => lenient_res.st = "ok"
  /\ (lenient_res # Idle /\ strict_res # Idle)
       => (strict_res.st = "err" <=> "InvalidChar" \in token_kinds(lenient_res))

\* The number of code points of the input a token covers: its value, and the
\* ":" of a name, the parentheses of a regexp, the backslash of an escape.
token_span(token) ==
  Len(token.value) + (CASE token.kind = "Name" -> 1
                        [] token.kind = "Regexp" -> 2
                        [] token.kind = "EscapedChar" -> 1
                        [] OTHER -> 0)

tokens_disjoint(r) ==
  r.st = "ok" =>
    /\ \A k \in 1..Len(r.token_list) :
         r.token_list[k].kind # "End" => Len(r.token_list[k].value) >= 1
    /\ \A k \in 1..(Len(r.token_list) - 1) :
         /\ r.token_list[k].index < r.token_list[k + 1].index
         /\ r.token_list[k].index + token_span(r.token_list[k])
              <= r.token_list[k + 1].index

\* C16: in a token list returned by tokenize, under either policy, every token
\* but End covers at least one code point, the indices increase strictly and a
\* token starts at or after the end of the token before it; no empty Char token
\* follows a Name or Regexp token.
C16_TokensDisjoint ==
  /\ strict_res # Idle => tokens_disjoint(strict_res)
  /\ lenient_res # Idle => tokens_disjoint(lenient_res)

\* The tokens of a result tile the input: the first starts at 0, each one
\* starts where the one before it ended, and the only End token is the last,
\* empty and at the length of the input.
tokens_tile(r, text) ==
  r.st = "ok" =>
    LET n == Len(r.token_list)
    IN /\ n >= 1
       /\ r.token_list[1].index = 0
       /\ \A k \in 1..(n - 1) :
            /\ r.token_list[k].kind # "End"
            /\ r.token_list[k + 1].index
                 = r.token_list[k].index + token_span(r.token_list[k])
       /\ r.token_list[n].kind = "End"
       /\ r.token_list[n].value = <<>>
       /\ r.token_list[n].index = Len(text)

\* C27: whenever tokenize returns a token list, under either policy, the
\* tokens tile the input: the first token has index 0, every other token
\* starts where the token before it ended, and there is exactly one End
\* token, the last, with an empty value and the length of the input as index.
C27_TokenTiling ==
  /\ strict_res # Idle => tokens_tile(strict_res, pattern)
  /\ lenient_res # Idle => tokens_tile(lenient_res, pattern)


\* ------------------------------------------------------------------------
\* Properties of one compiled component
\* ------------------------------------------------------------------------


\* The parts that are not FixedText, in order.
non_fixed_parts(part_list) == SelectSeq(part_list, LAMBDA part : part.kind # "FixedText")

RECURSIVE capturing_groups(_, _, _)
\* The number of capturing groups a regexp source opens: each "(" that is not
\* escaped, not inside a character class and not followed by "?".
capturing_groups(re, i, in_class) ==
  IF i > Len(re) THEN 0
  ELSE IF re[i] = "\\" THEN capturing_groups(re, i + 2, in_class)
  ELSE IF in_class
    THEN capturing_groups(re, i + 1, re[i] # "]")
  ELSE IF re[i] = "["
    THEN capturing_groups(re, IF i < Len(re) /\ re[i + 1] = "^" THEN i + 2 ELSE i + 1, TRUE)
  ELSE IF re[i] = "(" /\ ~(i < Len(re) /\ re[i + 1] = "?")
    THEN 1 + capturing_groups(re, i + 1, FALSE)
  ELSE capturing_groups(re, i + 1, FALSE)

\* C1: whenever a pattern string parses to a part list, the pattern string
\* generated from that list parses again, to an equal part list (kinds, names,
\* values, modifiers, prefixes and suffixes).
C1_RoundTrip ==
  pc = "reparsed" => (reparsed.st = "ok" /\ reparsed.part_list = comp.part_list)

\* C2: when the generated matcher is a Literal or a SingleCapture, it returns
\* Some for an input exactly when the anchored regular expression generated
\* from the whole part list matches that input.
C2_MatcherAgreement ==
  (pc = "matched" /\ comp.matcher.kind \in {"Literal", "SingleCapture"})
    => (mres.st = "ok" /\ (mres.v.some <=> exec_result.some))

C2_Witness ==
  /\ pc = "matched" /\ comp.matcher.kind = "SingleCapture"
  /\ comp.matcher.prefix # <<>> /\ comp.matcher.filter.some
  /\ mres.st = "ok" /\ mres.v.some /\ exec_result.some

\* C5: the groups of a component result have one entry per name of the name
\* list, the i-th name is bound to the i-th capture, and a capture that did
\* not participate in the match is bound to the empty string.
C5_GroupsBinding ==
  (pc = "matched" /\ exec_result.some) =>
    /\ DOMAIN result.groups = {comp.group_name_list[i] : i \in 1..Len(comp.group_name_list)}
    /\ Len(exec_result.v) = Len(comp.group_name_list)
    /\ \A i \in 1..Len(comp.group_name_list) :
         result.groups[comp.group_name_list[i]] =
           IF exec_result.v[i].some THEN exec_result.v[i] ELSE Some(<<>>)

\* C6: a component compiles only if the names of its non-FixedText parts are
\* pairwise distinct.
C6_DistinctNames ==
  (pc = "compiled" /\ comp.st = "ok") =>
    \A i, j \in 1..Len(comp.group_name_list) :
      i # j => comp.group_name_list[i] # comp.group_name_list[j]

\* C7: the name list has one entry per non-FixedText part, the i-th entry is
\* the i-th such part's name, and the regexp source opens exactly one
\* capturing group per non-FixedText part, which the regexp engine counts too.
C7_CaptureAlignment ==
  (pc = "compiled" /\ comp.st = "ok") =>
    LET parts == non_fixed_parts(comp.part_list)
    IN /\ gen.st = "ok"
       /\ Len(gen.name_list) = Len(parts)
       /\ \A i \in 1..Len(parts) : gen.name_list[i] = parts[i].name
       /\ capturing_groups(gen.regexp_string, 1, FALSE) = Len(parts)
       /\ comp.regexp.st = "ok" => comp.regexp.v.n = Len(parts)
       /\ comp.group_name_list = gen.name_list

C7_Witness ==
  /\ pc = "compiled" /\ comp.st = "ok"
  /\ \E i \in 1..Len(comp.part_list) :
       /\ comp.part_list[i].kind # "FixedText"
       /\ comp.part_list[i].modifier \in {"ZeroOrMore", "OneOrMore"}
       /\ comp.part_list[i].prefix # <<>> /\ comp.part_list[i].suffix # <<>>

\* The modifier each modifier character stands for.
modifier_of_char ==
  [c \in {"?", "+", "*"} |->
     CASE c = "?" -> "Optional" [] c = "+" -> "OneOrMore" [] c = "*" -> "ZeroOrMore"]

\* The code point of the pattern right after a token, "NONE" at the end.
code_point_after(token) ==
  IF token.index + token_span(token) < Len(pattern)
    THEN pattern[token.index + token_span(token) + 1]
  ELSE "NONE"

\* C17: a "?", "+" or "*" written right after a bare ":name" is tokenized as
\* OtherModifier or Asterisk, not Char, and a pattern that is ":name" followed
\* by one of them parses to a single SegmentWildcard part of that name whose
\* modifier is Optional, OneOrMore or ZeroOrMore.
C17_ModifierAfterName ==
  pc = "compiled" =>
    /\ LET r == tokenize(pattern, "Strict")
       IN r.st = "ok" =>
            \A k \in 1..(Len(r.token_list) - 1) :
              (/\ r.token_list[k].kind = "Name"
               /\ code_point_after(r.token_list[k]) \in DOMAIN modifier_of_char)
                => r.token_list[k + 1].kind
                     = (IF code_point_after(r.token_list[k]) = "*" THEN "Asterisk"
                        ELSE "OtherModifier")
    /\ (/\ Len(pattern) = 3 /\ pattern[1] = ":" /\ pattern[2] \in Lower
        /\ pattern[3] \in DOMAIN modifier_of_char)
         => /\ comp.st = "ok"
            /\ Len(comp.part_list) = 1
            /\ comp.part_list[1].kind = "SegmentWildcard"
            /\ comp.part_list[1].name = <<pattern[2]>>
            /\ comp.part_list[1].modifier = modifier_of_char[pattern[3]]

\* C18 as the specification states it: every FixedText part of a successfully
\* parsed component has modifier None.
C18_FixedTextUnmodified ==
  (pc = "compiled" /\ comp.st = "ok") =>
    \A k \in 1..Len(comp.part_list) :
      comp.part_list[k].kind = "FixedText" => comp.part_list[k].modifier = "None"

\* C18, amended: a FixedText part has modifier None unless the pattern holds a
\* brace group directly followed by a modifier, which is then the part's
\* modifier; and a pattern that is "{a}" followed by "?", "+" or "*" parses to
\* one FixedText part, the encoded text, that carries that modifier.
C18_FixedTextModifier ==
  pc = "compiled" =>
    /\ comp.st = "ok" =>
         LET r == tokenize(pattern, "Strict")
         IN \A k \in 1..Len(comp.part_list) :
              (comp.part_list[k].kind = "FixedText" /\ comp.part_list[k].modifier # "None")
                => \E j \in 1..(Len(r.token_list) - 1) :
                     /\ r.token_list[j].kind = "Close"
                     /\ r.token_list[j + 1].kind \in {"OtherModifier", "Asterisk"}
                     /\ modifier_of_char[r.token_list[j + 1].value[1]]
                          = comp.part_list[k].modifier
    /\ (/\ Len(pattern) = 4 /\ SubSeq(pattern, 1, 3) = <<"{", "a", "}">>
        /\ pattern[4] \in DOMAIN modifier_of_char)
         => /\ comp.st = "ok"
            /\ Len(comp.part_list) = 1
            /\ comp.part_list[1].kind = "FixedText"
            /\ comp.part_list[1].value = encoding_callback(callback_of(opt), <<"a">>).v
            /\ comp.part_list[1].modifier = modifier_of_char[pattern[4]]

C18_Witness ==
  /\ pc = "compiled" /\ comp.st = "ok"
  /\ pattern = <<"{", "a", "}", "?">>
  /\ Len(comp.part_list) = 1
  /\ comp.part_list[1].kind = "FixedText" /\ comp.part_list[1].modifier = "Optional"

\* The names of a part list's non-FixedText parts, in order.
capture_names(part_list) ==
  [k \in 1..Len(non_fixed_parts(part_list)) |-> non_fixed_parts(part_list)[k].name]

numeric_names == <<"0", "1", "2", "3", "4", "5", "6", "7", "8", "9">>

\* C19: in a successfully parsed component every non-FixedText part has a
\* non-empty name; the parts that have a Name token carry the values of the
\* Name tokens, in order, and the other parts are named "0", "1", "2", ... in
\* order, a named part in between taking no number.
C19_CaptureNaming ==
  (pc = "compiled" /\ comp.st = "ok") =>
    LET names == capture_names(comp.part_list)
        numbered == SelectSeq(names, LAMBDA n : n # <<>> /\ n[1] \in Digit)
        named == SelectSeq(names, LAMBDA n : n # <<>> /\ n[1] \notin Digit)
        name_tokens == SelectSeq(tokenize(pattern, "Strict").token_list,
                                 LAMBDA t : t.kind = "Name")
    IN /\ \A k \in 1..Len(names) : names[k] # <<>>
       /\ Len(numbered) <= Len(numeric_names)
       /\ \A k \in 1..Len(numbered) : numbered[k] = <<numeric_names[k]>>
       /\ named = [k \in 1..Len(name_tokens) |-> name_tokens[k].value]

C19_Witness ==
  /\ pc = "compiled" /\ comp.st = "ok"
  /\ pattern = <<":", "a", "/", "*">>
  /\ capture_names(comp.part_list) = << <<"a">>, <<"0">> >>

\* The pattern is the group "{a}", with or without a modifier, followed by
\* text or by another group "{a}".
text_after_group ==
  \E m \in {<<>>, <<"?">>, <<"+">>, <<"*">>} :
    LET head == <<"{", "a", "}">> \o m
        rest == SubSeq(pattern, Len(head) + 1, Len(pattern))
    IN /\ Len(pattern) > Len(head)
       /\ SubSeq(pattern, 1, Len(head)) = head
       /\ \/ \A k \in 1..Len(rest) : rest[k] \in {"a", "/", "."}
          \/ rest = <<"{", "a", "}">>

\* C20: the parser goes on after an explicit group, so a well-formed pattern
\* with text or another group after a closing brace, such as "{a}?a", parses
\* successfully.
C20_ParsesAfterGroup ==
  (pc = "compiled" /\ text_after_group) => comp.st = "ok"

\* C28: when generate_matcher has specialized the matcher of a compiled
\* component, a Literal matcher stands for a part list without any part that
\* is not FixedText and a SingleCapture matcher for one with exactly one, and
\* the captures the matcher returns on a match are as many as the names of
\* the component's group_name_list.
C28_SpecializedCaptureCount ==
  (pc = "matched" /\ comp.matcher.kind \in {"Literal", "SingleCapture"}) =>
    /\ comp.matcher.kind = "Literal" => Len(non_fixed_parts(comp.part_list)) = 0
    /\ comp.matcher.kind = "SingleCapture" => Len(non_fixed_parts(comp.part_list)) = 1
    /\ (mres.st = "ok" /\ mres.v.some)
         => Len(mres.v.v) = Len(comp.group_name_list)

\* A SingleCapture matcher with a literal prefix has matched.
C28_Witness ==
  /\ pc = "matched" /\ comp.matcher.kind = "SingleCapture"
  /\ comp.matcher.prefix # <<>>
  /\ mres.st = "ok" /\ mres.v.some
  /\ Len(mres.v.v) = 1 /\ Len(comp.group_name_list) = 1


\* ------------------------------------------------------------------------
\* Properties of the constructor string parser
\* ------------------------------------------------------------------------

\* The result field of each component state of the constructor string parser.
state_field ==
  [Protocol |-> "protocol", Username |-> "username", Password |-> "password",
   Hostname |-> "hostname", Port |-> "port", Pathname |-> "pathname",
   Search |-> "search", Hash |-> "hash"]

\* C13: whenever a step of the constructor string parser leaves a component
\* state X for another state, the result field of X is the substring of the
\* input from the first token of X up to, but not including, the current
\* token.
C13_ConstructorSlicing ==
  [][(/\ pc = "parsing" /\ parser.st = "run"
      /\ parser.state \in DOMAIN state_field
      /\ parser'.st # "panic"
      /\ parser'.state # parser.state)
       => /\ make_component_string(parser).st = "ok"
          /\ parser'.result[state_field[parser.state]]
               = Some(make_component_string(parser).v)]_vars

\* C9: UrlPatternInit::parse_constructor_string fails with BaseUrlRequired
\* exactly when no base URL is given and the parser never entered the Protocol
\* state; a string in which a protocol was detected is accepted without a base
\* URL and the result carries the protocol.
C9_BaseUrlRequired ==
  (pc = "finished" /\ init_res.st # "panic" /\ parser.st \in {"run", "done"}) =>
    /\ (init_res.st = "err" /\ init_res.v = "BaseUrlRequired")
         <=> (~base_url.some /\ "Protocol" \notin visited)
    /\ "Protocol" \in visited => (init_res.st = "ok" /\ init_res.v.protocol.some)

\* C21: an Open token raises the group depth by one and a Close token inside
\* a group lowers it by one, and no step taken while the group depth is above
\* zero changes the parser state, whatever token it examines, the End token
\* of an input with an unclosed "{" included.
C21_NoTransitionInGroup ==
  [][(pc = "parsing" /\ parser.st = "run" /\ parser'.st # "panic") =>
       LET token == parser.token_list[parser.token_index + 1]
       IN /\ token.kind = "Open" => parser'.group_depth = parser.group_depth + 1
          /\ (token.kind = "Close" /\ parser.group_depth > 0)
               => parser'.group_depth = parser.group_depth - 1
          /\ parser.group_depth > 0 => parser'.state = parser.state]_vars


\* C21 (amended): an Open token raises the group depth by one and a Close
\* token inside a group lowers it by one; no step on a token other than End
\* changes the parser state while the group depth is above zero, and the step
\* on the End token changes the state whatever the depth.
C21_NoTransitionInGroupBeforeEnd ==
  [][(pc = "parsing" /\ parser.st = "run" /\ parser'.st # "panic") =>
       LET token == parser.token_list[parser.token_index + 1]
       IN /\ token.kind = "Open" => parser'.group_depth = parser.group_depth + 1
          /\ (token.kind = "Close" /\ parser.group_depth > 0)
               => parser'.group_depth = parser.group_depth - 1
          /\ (parser.group_depth > 0 /\ token.kind # "End")
               => parser'.state = parser.state
          /\ token.kind = "End" => parser'.state # parser.state]_vars

\* A delimiter inside a group has been passed without a change of state.
C21_Witness ==
  /\ pc = "parsing" /\ parser.st = "run"
  /\ parser.group_depth > 0 /\ parser.state = "Init"
  /\ parser.token_index > 1
  /\ parser.token_list[parser.token_index].value = <<":">>
  /\ parser.token_list[parser.token_index].kind \in {"Char", "EscapedChar", "InvalidChar"}


\* The delimiters the constructor string parser probes for.
Delimiters == {<<":">>, <<"/">>, <<"?">>, <<"#">>, <<"@">>}

\* C22: a step on a token other than End changes the parser state only when
\* the token is of kind Char, EscapedChar or InvalidChar and its value is a
\* delimiter; a token of any other kind never triggers a transition, whatever
\* its value and whatever token precedes it.
C22_OnlyPlainDelimiters ==
  [][(/\ pc = "parsing" /\ parser.st = "run" /\ parser'.st # "panic"
      /\ parser.token_list[parser.token_index + 1].kind # "End"
      /\ parser'.state # parser.state)
       => LET token == parser.token_list[parser.token_index + 1]
          IN /\ token.kind \in {"Char", "EscapedChar", "InvalidChar"}
             /\ token.value \in Delimiters]_vars

\* C22 (amended): a step on a token other than End changes the parser state
\* only when the token is of kind Char, EscapedChar or InvalidChar with a
\* delimiter as its value, or when its value is "?" and the token before it
\* is not a Name, Regexp, Close or Asterisk token, in which case the state
\* entered is Search, or Hostname from Authority.
C22_DelimiterOrSearchPrefix ==
  [][(/\ pc = "parsing" /\ parser.st = "run" /\ parser'.st # "panic"
      /\ parser.token_list[parser.token_index + 1].kind # "End"
      /\ parser'.state # parser.state)
       => LET token == parser.token_list[parser.token_index + 1]
          IN \/ /\ token.kind \in {"Char", "EscapedChar", "InvalidChar"}
                /\ token.value \in Delimiters
             \/ /\ token.value = <<"?">>
                /\ parser.token_index > 0
                /\ parser.token_list[parser.token_index].kind
                     \notin {"Name", "Regexp", "Close", "Asterisk"}
                /\ parser'.state \in {"Search", "Hostname"}]_vars

\* The Search state has been entered on a "?" token of kind OtherModifier.
C22_Witness ==
  /\ pc = "parsing" /\ parser.st = "run"
  /\ parser.state = "Search" /\ parser.component_start > 0
  /\ parser.token_list[parser.component_start].kind = "OtherModifier"


\* The token at the 0-based position i is a plain character with the value v.
plain_token(p, i, v) ==
  /\ i < Len(p.token_list)
  /\ p.token_list[i + 1].kind \in {"Char", "EscapedChar", "InvalidChar"}
  /\ p.token_list[i + 1].value = <<v>>

\* The text before the current token, compiled as a protocol component,
\* matches one of the special schemes.
protocol_is_special(p) ==
  Bind(Component_compile(Some(make_component_string(p).v), "protocol", options_default),
       LAMBDA c : c.st = "ok" /\ protocol_component_matches_special_scheme(c))

\* C23: a step in state Protocol on a protocol suffix at depth 0 pre-seeds
\* pathname to "/" when the protocol text matches a special scheme, enters
\* Authority past the two following tokens when they are plain "/" "/",
\* else Authority when the protocol is special, else Pathname, and scanning
\* resumes at the first token after the ":" and the skipped slashes.
C23_ProtocolSuffix ==
  [][(/\ pc = "parsing" /\ parser.st = "run" /\ parser'.st = "run"
      /\ parser.state = "Protocol" /\ parser.group_depth = 0
      /\ plain_token(parser, parser.token_index, ":"))
       => LET i == parser.token_index
              slashes == plain_token(parser, i + 1, "/") /\ plain_token(parser, i + 2, "/")
              special == protocol_is_special(parser)
              skip == IF slashes THEN 3 ELSE 1
          IN /\ special => parser'.result.pathname = Some(<<"/">>)
             /\ parser'.should_treat_as_standard_url = special
             /\ parser'.state = IF slashes \/ special THEN "Authority" ELSE "Pathname"
             /\ parser'.token_index = i + skip
             /\ parser'.component_start = i + skip]_vars

\* The parser has entered Authority past the two slashes that follow the
\* protocol suffix.
C23_Witness ==
  /\ pc = "parsing" /\ parser.st = "run"
  /\ parser.state = "Authority"
  /\ parser.token_index = parser.component_start
  /\ parser.component_start > 2
  /\ plain_token(parser, parser.component_start - 1, "/")
  /\ plain_token(parser, parser.component_start - 2, "/")
  /\ plain_token(parser, parser.component_start - 3, ":")


\* C24: the step on the End token in state Init rewinds and enters Hash when
\* the input leads with "#", else Search, with hash pre-seeded empty, when it
\* leads with "?", else Pathname, with search and hash pre-seeded empty; this
\* holds for every such input, one whose first character is "?" included, and
\* the parser then completes in Done without an index or assertion failure.
C24_EndInInit ==
  [][/\ (/\ pc = "parsing" /\ parser.st = "run" /\ parser.state = "Init"
         /\ parser.token_list[parser.token_index + 1].kind = "End")
          => /\ parser'.st = "run"
             /\ parser'.state =
                  IF plain_token(parser, 0, "#") THEN "Hash"
                  ELSE IF parser.token_list[1].value = <<"?">> THEN "Search"
                  ELSE "Pathname"
             /\ parser'.state = "Search" => parser'.result.hash = Some(<<>>)
             /\ parser'.state = "Pathname"
                  => parser'.result.search = Some(<<>>) /\ parser'.result.hash = Some(<<>>)
     /\ (pc = "parsing" /\ pc' = "finished" /\ visited \subseteq {"Init", "Hash", "Search", "Pathname", "Done"}
           /\ parser.token_list # <<>>)
          => parser.st = "done" /\ parser.state = "Done"]_vars


\* The position of each state in the order of ConstructorStringParserState.
state_order ==
  [Init |-> 0, Protocol |-> 1, Authority |-> 2, Username |-> 3, Password |-> 4,
   Hostname |-> 5, Port |-> 6, Pathname |-> 7, Search |-> 8, Hash |-> 9, Done |-> 10]

\* C25: the parser state only moves forward in the order Init, Protocol,
\* Authority, Username, Password, Hostname, Port, Pathname, Search, Hash,
\* Done: no step lowers it, a state once left is never entered again, so each
\* result field is written by a state change at most once, and a step that
\* does not move to a later token, a rewind included, moves to a later state.
C25_StateMovesForward ==
  [][(pc = "parsing" /\ parser.st = "run" /\ parser'.st # "panic" /\ parser'.st # "err") =>
       /\ state_order[parser'.state] >= state_order[parser.state]
       /\ parser'.state # parser.state => parser'.state \notin visited
       /\ parser'.token_index <= parser.token_index
            => state_order[parser'.state] > state_order[parser.state]]_vars

\* The parser rewound from Authority to Username and has gone on to Hostname.
C25_Witness ==
  /\ pc = "parsing" /\ parser.st = "run"
  /\ {"Authority", "Username"} \subseteq visited
  /\ parser.state = "Hostname"


\* The loop of parse_constructor_string is over.
loop_over ==
  pc = "parsing" /\ (parser.st # "run" \/ ~(parser.token_index < Len(parser.token_list)))

\* C26: once the parser is set up its loop comes to an end, rewinds
\* notwithstanding, and a loop that has ended without a failure has ended in
\* the state Done.
C26_LoopTerminatesInDone ==
  (pc = "parsing") ~> (loop_over /\ (constructor_result(parser).st = "ok" => parser.state = "Done"))

\* The loop has ended in Done after a rewind from Authority.
C26_Witness ==
  /\ loop_over /\ constructor_result(parser).st = "ok"
  /\ parser.state = "Done" /\ {"Authority", "Hostname"} \subseteq visited



\* C30: at the head of every iteration of the parser's loop component_start
\* is at most token_index, which is inside the token list, and the iteration
\* neither slices the input with a start beyond its end nor reaches
\* get_safe_token with an index outside the token list: it does not panic.
C30_IndicesInRange ==
  [][(/\ pc = "parsing" /\ parser.st = "run"
      /\ parser.token_index < Len(parser.token_list))
       => /\ parser.component_start <= parser.token_index
          /\ get_safe_token(parser, parser.component_start).index
               <= parser.token_list[parser.token_index + 1].index
          /\ parser'.st # "panic"]_vars


\* ------------------------------------------------------------------------
\* Properties of a compiled UrlPattern
\* ------------------------------------------------------------------------

\* The components of the pattern whose regular expression does not match the
\* string the match input gives for them.
failing_components ==
  LET i == parse_match_input(mproc.v.v.input)
  IN {f \in ComponentNames : ~regexp_matches(urlpattern.v[f].regexp.v, i.v.v[f]).some}

\* C3: exec returns a result if and only if each of the eight components
\* matches its input string; the result then has all eight component results,
\* each for its own input string, and otherwise exec returns Ok(None).
C3_AllOrNothing ==
  pc = "executed" =>
    LET i == parse_match_input(mproc.v.v.input)
    IN /\ exec_res.st = "ok"
       /\ exec_res.v.some <=> (i.st = "ok" /\ i.v.some /\ failing_components = {})
       /\ exec_res.v.some =>
            /\ DOMAIN exec_res.v.v = ComponentNames
            /\ \A f \in ComponentNames : exec_res.v.v[f].input = i.v.v[f]
       /\ ~exec_res.v.some => exec_res.v = None

\* A single component, the hash, fails to match and exec returns no match.
C3_Witness ==
  /\ pc = "executed"
  /\ parse_match_input(mproc.v.v.input).v.some
  /\ failing_components = {"hash"}
  /\ exec_res = Ok(None)

\* C4: test returns true exactly when exec returns a match result, and test
\* fails exactly when exec fails.
C4_TestAgreesWithExec ==
  pc = "executed" =>
    /\ test_res.st = exec_res.st
    /\ test_res.st = "ok" => (test_res.v <=> exec_res.v.some)

\* test returned false and exec returned no match, for an input that was decomposed.
C4_Witness ==
  /\ pc = "executed"
  /\ test_res = Ok(FALSE) /\ exec_res = Ok(None)
  /\ parse_match_input(mproc.v.v.input).v.some

\* The special schemes with their default ports, as the claim lists them.
DefaultPortTable ==
  { <<<<"h", "t", "t", "p">>, <<"8", "0">>>>, <<<<"w", "s">>, <<"8", "0">>>>,
    <<<<"h", "t", "t", "p", "s">>, <<"4", "4", "3">>>>,
    <<<<"w", "s", "s">>, <<"4", "4", "3">>>>, <<<<"f", "t", "p">>, <<"2", "1">>>> }

\* The init as UrlPattern::parse processes it.
processed_pattern_init ==
  UrlPatternInit_process(cres.v, "Pattern", None, None, None, None, None, None, None, None)

\* C8: when the processed init's protocol is a special scheme and its port is
\* that scheme's default port, the compiled port pattern string is empty.
C8_DefaultPortElided ==
  (pc = "parsed" /\ urlpattern.st = "ok") =>
    \A e \in DefaultPortTable :
      (processed_pattern_init.v.protocol = Some(e[1])
       /\ processed_pattern_init.v.port = Some(e[2]))
        => urlpattern.v.port.pattern_string = <<>>

\* An init with protocol "ws" and port "80" was compiled.
C8_Witness ==
  /\ pc = "parsed" /\ urlpattern.st = "ok"
  /\ processed_pattern_init.v.protocol = Some(<<"w", "s">>)
  /\ processed_pattern_init.v.port = Some(<<"8", "0">>)
  /\ urlpattern.v.port.pattern_string = <<>>

\* C10: an Init given together with a separate base URL is rejected with
\* BaseUrlWithInit, when a pattern is constructed and when an input is
\* matched, whatever the init holds.
C10_BaseUrlWithInit ==
  /\ (pc = "constructed" /\ cinput.kind = "Init" /\ cbase.some)
       => (cres.st = "err" /\ cres.v = "BaseUrlWithInit")
  /\ (pc = "processed" /\ minput.kind = "Init" /\ mbase.some)
       => (mproc.st = "err" /\ mproc.v = "BaseUrlWithInit")

\* A match input that is an Init was processed with a base URL.
C10_Witness ==
  /\ pc = "processed" /\ minput.kind = "Init" /\ mbase.some
  /\ mproc.st = "err" /\ mproc.v = "BaseUrlWithInit"

\* The match input is an init whose processing with kind Url fails in a
\* process_*_init step.
init_processing_fails ==
  /\ mproc.st = "ok" /\ mproc.v.some
  /\ mproc.v.v.input.kind = "Init"
  /\ UrlPatternInit_process(mproc.v.v.input.v, "Url", Some(<<>>), Some(<<>>), Some(<<>>),
                            Some(<<>>), Some(<<>>), Some(<<>>), Some(<<>>),
                            Some(<<>>)).st = "err"

\* C11: at match time, when processing the init input with kind Url fails in a
\* per-field process step, test returns Ok(false) and exec returns Ok(None):
\* the failure is not surfaced as an error and no component result is reported.
C11_InitFailureIsNoMatch ==
  /\ (pc \in {"tested", "executed"} /\ init_processing_fails)
       => (test_res.st = "ok" /\ test_res.v = FALSE)
  /\ (pc = "executed" /\ init_processing_fails)
       => (exec_res.st = "ok" /\ ~exec_res.v.some)

C11_Witness ==
  /\ pc = "executed" /\ init_processing_fails
  /\ minput.v.port = Some(<<"x">>)
  /\ test_res.st = "ok" /\ test_res.v = FALSE
  /\ exec_res.st = "ok" /\ ~exec_res.v.some

\* The result of processing the init a pattern is constructed from, and of
\* processing the init matched against it.
processed_match_init ==
  UrlPatternInit_process(mproc.v.v.input.v, "Url", Some(<<>>), Some(<<>>), Some(<<>>),
                         Some(<<>>), Some(<<>>), Some(<<>>), Some(<<>>), Some(<<>>))

\* The component of a parsed URL that seeds a field.
base_component(url, f) ==
  CASE f = "protocol" -> url.scheme
    [] f = "username" -> url.username
    [] f = "password" -> url.password
    [] f = "hostname" -> url.host_str
    [] f = "port" -> url.port
    [] f = "pathname" -> url.pathname
    [] f = "search" -> url.query
    [] f = "hash" -> url.fragment

\* The process step of a field other than pathname, given the protocol of the result.
own_process_step(init, f, protocol, kind) ==
  CASE f = "protocol" -> process_protocol_init(init.protocol.v, kind)
    [] f = "username" -> process_username_init(init.username.v, kind)
    [] f = "password" -> process_password_init(init.password.v, kind)
    [] f = "hostname" -> process_hostname_init(init.hostname.v, kind)
    [] f = "port" -> process_port_init(init.port.v, protocol, kind)
    [] f = "search" -> process_search_init(init.search.v, kind)
    [] f = "hash" -> process_hash_init(init.hash.v, kind)

\* What C14 says of one successful call of process on init with the prior
\* value given for every field.
fields_resolved(init, kind, prior, r) ==
  r.st = "ok" =>
    /\ \A f \in ComponentNames \ {"pathname"} :
         IF init[f].some
           THEN /\ own_process_step(init, f, r.v.protocol, kind).st = "ok"
                /\ r.v[f] = Some(own_process_step(init, f, r.v.protocol, kind).v)
         ELSE IF init.base_url.some
           THEN r.v[f] = Some(base_component(init.base_url.v, f))
         ELSE r.v[f] = prior
    /\ (init.pathname.some /\ ~init.base_url.some) =>
         r.v.pathname = Some(process_pathname_init(init.pathname.v, r.v.protocol, kind).v)
    /\ (~init.pathname.some /\ ~init.base_url.some) => r.v.pathname = prior

\* C14: after UrlPatternInit::process, a field other than pathname that the
\* init leaves out equals the base URL's component when there is a base URL
\* (whatever prior value was passed in) and the prior value when there is none;
\* a field the init gives equals the result of its own process step.
C14_InitFieldResolution ==
  /\ (pc = "parsed" /\ cres.st = "ok")
       => fields_resolved(cres.v, "Pattern", None, processed_pattern_init)
  /\ (pc \in {"tested", "executed"} /\ mproc.v.v.input.kind = "Init")
       => fields_resolved(mproc.v.v.input.v, "Url", Some(<<>>), processed_match_init)

C14_Witness ==
  /\ pc = "parsed" /\ cres.st = "ok" /\ processed_pattern_init.st = "ok"
  /\ cres.v.base_url.some /\ cres.v.protocol = Some(<<"w", "s">>)
  /\ ~cres.v.hostname.some
  /\ processed_pattern_init.v.protocol = Some(<<"w", "s">>)
  /\ processed_pattern_init.v.hostname = Some(<<"a">>)

\* A pathname is absolute when it starts with "/", or, for kind Pattern and a
\* length of at least two, with an escaped slash or with "{/".
absolute_pathname(p, kind) ==
  \/ (Len(p) >= 1 /\ p[1] = "/")
  \/ /\ kind = "Pattern" /\ Len(p) >= 2
     /\ (p[1] = "\\" \/ p[1] = "{") /\ p[2] = "/"

\* The pathname process_pathname_init is given: the init's pathname, after the
\* base URL's pathname up to and including its last "/" when the base URL can
\* be a base and the init's pathname is not absolute.
resolved_pathname(init, kind) ==
  LET p == init.pathname.v
      b == init.base_url.v.pathname
      slashes == {i \in 1..Len(b) : b[i] = "/"}
      last == CHOOSE i \in slashes : \A j \in slashes : j <= i
  IN IF init.base_url.some /\ ~init.base_url.v.cannot_be_a_base
        /\ ~absolute_pathname(p, kind) /\ slashes # {}
       THEN SubSeq(b, 1, last) \o p
     ELSE p

pathname_resolved(init, kind, r) ==
  (r.st = "ok" /\ init.pathname.some) =>
    r.v.pathname = Some(process_pathname_init(resolved_pathname(init, kind),
                                              r.v.protocol, kind).v)

\* C15: when the init gives a pathname, the processed pathname is the base
\* URL's pathname up to and including its last "/" followed by the init's
\* pathname exactly when there is a base URL that can be a base and the init's
\* pathname is not absolute; otherwise it is the init's pathname alone.
C15_PathnameResolution ==
  /\ (pc = "parsed" /\ cres.st = "ok")
       => pathname_resolved(cres.v, "Pattern", processed_pattern_init)
  /\ (pc \in {"tested", "executed"} /\ mproc.v.v.input.kind = "Init")
       => pathname_resolved(mproc.v.v.input.v, "Url", processed_match_init)

C15_Witness ==
  /\ pc = "parsed" /\ cres.st = "ok" /\ processed_pattern_init.st = "ok"
  /\ cres.v.base_url.some /\ ~cres.v.base_url.v.cannot_be_a_base
  /\ cres.v.pathname = Some(<<"b">>)
  /\ processed_pattern_init.v.pathname = Some(<<"/", "b">>)

\* The default-port step has a port to elide: the protocol is a special
\* scheme and the port is present and is that scheme's default port.
elides_port(init) ==
  /\ init.protocol.some /\ init.port.some
  /\ <<init.protocol.v, init.port.v>> \in DefaultPortTable

\* C29: the default-port step of UrlPattern::parse changes nothing but the
\* port, and it makes the port empty only when the processed protocol is a
\* special scheme and the processed port is present and is that scheme's
\* default port; an init without a port keeps its port absent, compiled as
\* the wildcard "*", whatever the protocol, "file" included.
C29_DefaultPortFrame ==
  (pc = "parsed" /\ urlpattern.st = "ok") =>
    /\ ~processed_pattern_init.v.port.some => urlpattern.v.port.pattern_string = <<"*">>
    /\ urlpattern.v.port.pattern_string
         = Component_compile(IF elides_port(processed_pattern_init.v) THEN Some(<<>>)
                             ELSE processed_pattern_init.v.port,
                             "port", options_default).pattern_string
    /\ \A f \in {"protocol", "username", "password", "search", "hash"} :
         urlpattern.v[f].pattern_string
           = Component_compile(processed_pattern_init.v[f], f, options_default).pattern_string

====
